---- MODULE Spec2Model ----
(***************************************************************************)
(* A model of the KIF ontology of kifparser (src/kifparser/ontology.py):   *)
(* the interned concept store, predicate calls with their builtin          *)
(* handlers, premise matching with a shared variable dictionary,           *)
(* conclusion instantiation and the apply_implications generator.          *)
(*                                                                         *)
(* A concept is an object: it is identified by its position in the store   *)
(* (`names'), never by its name.  A name is the sequence of the lexemes of *)
(* the Python string: 'instance(?X, Human)' is                             *)
(* <<"instance", "(", "?", "X", ", ", "Human", ")">>.                      *)
(*                                                                         *)
(* The operators that model a method take the ontology st and return the   *)
(* ontology after the method; st.ret is the value the method returned and  *)
(* st.raised tells that it raised (KeyError, ValueError).                  *)
(***************************************************************************)
EXTENDS Integers, Sequences, FiniteSets, TLC

\* ------------------------------------------------------------------ bounds
MaxEvals == 3
MaxRuns == 2
MaxNameLen == 12
MaxItems == 2
MaxTextLen == 2
MaxCompleted == 3

\* ----------------------------------------------------------------- helpers
Digit == <<"0", "1", "2", "3", "4", "5", "6", "7", "8", "9">>

\* str(i) of a non-negative integer, one lexeme per decimal digit
RECURSIVE Str(_)
Str(i) == IF i < 10 THEN <<Digit[i + 1]>>
          ELSE Str(i \div 10) \o <<Digit[(i % 10) + 1]>>

\* ", ".join(names)
RECURSIVE Join(_)
Join(ns) == IF ns = <<>> THEN <<>>
            ELSE IF Len(ns) = 1 THEN ns[1]
            ELSE ns[1] \o <<", ">> \o Join(Tail(ns))

\* name.startswith('?')
StartsWithQ(n) == Len(n) > 0 /\ n[1] = "?"

\* name.startswith('have argument #')
IsArgRelName(n) == Len(n) > 0 /\ n[1] = "have argument #"

HavePredicate == <<"have predicate">>
Include == <<"include">>
HaveArgument(suffix) == <<"have argument #">> \o suffix
Arg0 == HaveArgument(<<"0">>)
Arg1 == HaveArgument(<<"1">>)

\* f'{predicate.name}({", ".join(a.name for a in args)})'
SynthName(predname, argnames) == predname \o <<"(">> \o Join(argnames) \o <<")">>

\* ------------------------------------------------------- the concept store
\* An ontology value st is
\*   names[c]      the name of concept c (by_name, in insertion order),
\*   attrs[c]      the ordered dict of c: a sequence of [attr, vals],
\*   descr[c]      the concept set as description of c, 0 when unset,
\*   implications  the list of <<premise, conclusion>>,
\*   calls         the record of the calls made so far (history),
\*   ret, raised   the outcome of the last method.

\* name in self.by_name
InStore(st, n) == \E c \in DOMAIN st.names : st.names[c] = n

\* by_name[n]: the concept last stored under n
ByName(st, n) == CHOOSE c \in DOMAIN st.names :
                    /\ st.names[c] = n
                    /\ \A d \in (c + 1)..Len(st.names) : st.names[d] # n

\* a new concept named n is put in by_name
Create(st, n) == [st EXCEPT !.names = Append(@, n),
                            !.attrs = Append(@, <<>>),
                            !.descr = Append(@, 0)]

\* Ontology.create_or_get(n): the ontology after it; it returns ByName(st', n)
CreateOrGet(st, n) == IF InStore(st, n) THEN st ELSE Create(st, n)

AttrPos(alist, a) == {i \in DOMAIN alist : alist[i].attr = a}

\* attr in concept.attrs
HasAttrC(st, c, a) == AttrPos(st.attrs[c], a) # {}

\* concept.attrs[attr]
AttrVals(st, c, a) == st.attrs[c][CHOOSE i \in AttrPos(st.attrs[c], a) : TRUE].vals

\* Concept.add_attr(a, v)
AddAttr(st, c, a, v) ==
    IF HasAttrC(st, c, a)
    THEN [st EXCEPT !.attrs[c][CHOOSE j \in AttrPos(st.attrs[c], a) : TRUE].vals =
                        Append(@, v)]
    ELSE [st EXCEPT !.attrs[c] = Append(@, [attr |-> a, vals |-> <<v>>])]

\* c.add_attr(self.create_or_get(n), v), the concept named n being there
AddNamedAttr(st, c, n, v) == AddAttr(st, c, ByName(st, n), v)

\* the positions in the ordered dict of c of the attribute named n
NamedPos(st, c, n) == {i \in DOMAIN st.attrs[c] : st.names[st.attrs[c][i].attr] = n}

\* Concept.getattr(n) succeeds (no KeyError)
HasAttr(st, c, n) == NamedPos(st, c, n) # {}

\* Concept.getattr(n)
GetAttr(st, c, n) == st.attrs[c][CHOOSE i \in NamedPos(st, c, n) : TRUE].vals

\* dict.update of one key: the value list is replaced, the position kept
SetAttr(st, c, a, vs) ==
    IF HasAttrC(st, c, a)
    THEN [st EXCEPT !.attrs[c][CHOOSE j \in AttrPos(st.attrs[c], a) : TRUE].vals = vs]
    ELSE [st EXCEPT !.attrs[c] = Append(@, [attr |-> a, vals |-> vs])]

NamesOf(st, cs) == [i \in DOMAIN cs |-> st.names[cs[i]]]
AttrsOf(st, cs) == [i \in DOMAIN cs |-> st.attrs[cs[i]]]

Raise(st) == [st EXCEPT !.raised = TRUE, !.ret = 0]
Return(st, c) == [st EXCEPT !.ret = c]

\* ------------------------------------------------------- builtin handlers
\* the relation `have argument #i' is a new concept at every declaration
DomainAddFresh(st, vs) ==
    AddNamedAttr(Create(st, HaveArgument(st.names[vs[2]])), vs[1],
                 HaveArgument(st.names[vs[2]]), vs[3])

\* pred_conc.add_attr(have_arg_rel, cls_conc), vs the three unpacked values
DomainAdd(st, vs) ==
    AddNamedAttr(CreateOrGet(st, HaveArgument(st.names[vs[2]])), vs[1],
                 HaveArgument(st.names[vs[2]]), vs[3])

\* pred_conc, argno_conc, cls_conc = args.attrs[include]
UnpackThree(st, args) ==
    HasAttr(st, args, Include) /\ Len(GetAttr(st, args, Include)) = 3

\* premise, conclusion = args.getattr('include')
UnpackTwo(st, args) ==
    HasAttr(st, args, Include) /\ Len(GetAttr(st, args, Include)) = 2

\* domain_predicate after include = self.create_or_get('include')
DomainUnpack(st, args) ==
    IF UnpackThree(st, args) THEN DomainAdd(st, GetAttr(st, args, Include))
    ELSE Raise(st)

\* KIFOntology.domain_predicate
DomainPredicate(st, args) == DomainUnpack(CreateOrGet(st, Include), args)

\* conc.descr = text
SetDescr(st, vs) == [st EXCEPT !.descr[vs[1]] = vs[3]]

\* doc_predicate after include = self.create_or_get('include')
DocUnpack(st, args) ==
    IF UnpackThree(st, args) THEN SetDescr(st, GetAttr(st, args, Include))
    ELSE Raise(st)

\* KIFOntology.doc_predicate
DocPredicate(st, args) == DocUnpack(CreateOrGet(st, Include), args)

\* self.implications.append((premise, conclusion))
AppendImplication(st, premise, conclusion) ==
    [st EXCEPT !.implications = Append(@, <<premise, conclusion>>)]

\* an argument group that cannot be unpacked is passed over
ImplicationLenient(st, args) ==
    IF UnpackTwo(st, args)
    THEN AppendImplication(st, GetAttr(st, args, Include)[1],
                           GetAttr(st, args, Include)[2])
    ELSE st

\* KIFOntology.implication
Implication(st, args) ==
    IF UnpackTwo(st, args)
    THEN AppendImplication(st, GetAttr(st, args, Include)[1],
                           GetAttr(st, args, Include)[2])
    ELSE Raise(st)

\* only (a, b) is appended
EquivalenceOneWay(st, args) == Implication(st, args)

\* KIFOntology.equivalence
Equivalence(st, args) ==
    IF UnpackTwo(st, args)
    THEN AppendImplication(
             AppendImplication(st, GetAttr(st, args, Include)[1],
                               GetAttr(st, args, Include)[2]),
             GetAttr(st, args, Include)[2], GetAttr(st, args, Include)[1])
    ELSE Raise(st)

\* self.predicates[predicate.name](arguments), when the name is registered
Builtin(st, predicate, arguments) ==
    IF st.names[predicate] = <<"domain">> THEN DomainPredicate(st, arguments)
    ELSE IF st.names[predicate] = <<"documentation">> THEN DocPredicate(st, arguments)
    ELSE IF st.names[predicate] = <<"=>">> THEN Implication(st, arguments)
    ELSE IF st.names[predicate] = <<"<=>">> THEN Equivalence(st, arguments)
    ELSE st

\* ------------------------------------------------------------------- call
\* args of call: the values of `include', or [arguments]
CallArgs(st, arguments) ==
    IF HasAttr(st, arguments, Include) THEN GetAttr(st, arguments, Include)
    ELSE <<arguments>>

RECURSIVE TagArguments(_, _, _, _)
RECURSIVE TagArgumentsFromOne(_, _, _, _)

\* the arguments numbered from 1 instead of 0
TagArgumentsFromOne(st, predconc, args, i) ==
    IF i > Len(args) THEN st
    ELSE TagArgumentsFromOne(
             AddNamedAttr(CreateOrGet(st, HaveArgument(Str(i))), predconc,
                          HaveArgument(Str(i)), args[i]),
             predconc, args, i + 1)

\* for i, arg in enumerate(args): predconc.add_attr('have argument #i', arg),
\* from the i-th argument on (i counts from 1 here)
TagArguments(st, predconc, args, i) ==
    IF i > Len(args) THEN st
    ELSE TagArguments(
             AddNamedAttr(CreateOrGet(st, HaveArgument(Str(i - 1))), predconc,
                          HaveArgument(Str(i - 1)), args[i]),
             predconc, args, i + 1)

\* the relation is added for variables too
DirectEdgeAlways(st, predicate, args) ==
    IF Len(args) = 2 THEN AddAttr(st, args[1], predicate, args[2]) ELSE st

\* Add all binary predicates on constants as concept relations
DirectEdge(st, predicate, args) ==
    IF Len(args) = 2
    THEN IF ~StartsWithQ(st.names[args[1]]) /\ ~StartsWithQ(st.names[args[2]])
         THEN AddAttr(st, args[1], predicate, args[2])
         ELSE st
    ELSE st

\* call from predconc.add_attr(have_pred, predicate) to return predconc
TagAssertion(st, predconc, predicate, args) ==
    Return(DirectEdge(TagArguments(AddNamedAttr(st, predconc, HavePredicate, predicate),
                                   predconc, args, 1),
                      predicate, args),
           predconc)

\* predconc is a new concept at every call
FreshConcept(st, name) == Create(st, name)

\* predconc = self.create_or_get(name): the ontology after it
AssertionConcept(st, name) == CreateOrGet(st, name)

\* call from have_pred = self.create_or_get('have predicate') on
CallTag(st, name, predicate, args) ==
    TagAssertion(CreateOrGet(st, HavePredicate), ByName(st, name), predicate, args)

\* call after args is set
CallBuild(st, predicate, args) ==
    CallTag(AssertionConcept(st, SynthName(st.names[predicate], NamesOf(st, args))),
            SynthName(st.names[predicate], NamesOf(st, args)), predicate, args)

\* call after the builtin handler; a handler that raised ends the call
CallBody(st, predicate, arguments) ==
    IF st.raised THEN st ELSE CallBuild(st, predicate, CallArgs(st, arguments))

\* The call is recorded in calls, with the attributes of its arguments and
\* the implications before (in st) and after (in s) it, and the attributes
\* of the returned concept.
Recorded(st, s, predicate, arguments, args) ==
    [s EXCEPT !.calls = Append(@,
        [pred |-> predicate, arguments |-> arguments, args |-> args,
         ret |-> s.ret, raised |-> s.raised,
         preArgs |-> AttrsOf(st, args), postArgs |-> AttrsOf(s, args),
         postRet |-> IF s.raised THEN <<>> ELSE s.attrs[s.ret],
         preImpl |-> st.implications, postImpl |-> s.implications,
         preNames |-> Len(st.names), postNames |-> Len(s.names)])]

\* KIFOntology.call
Call(st, predicate, arguments) ==
    Recorded(st, CallBody(Builtin(st, predicate, arguments), predicate, arguments),
             predicate, arguments, CallArgs(st, arguments))

\* ------------------------------------------------------- premise matching
\* A variable dict vd is a function from variable names to concepts; the
\* matcher only writes it.  A match result is [ok, raised, vd]; raised
\* stands for the KeyError of a failed getattr.

EmptyDict == <<>>

\* a variable that is bound keeps its binding
BindOnce(vd, n, c) == vd @@ (n :> c)

\* vardict[premise.name] = concept
Bind(vd, n, c) == (n :> c) @@ vd

Matched(vd) == [ok |-> TRUE, raised |-> FALSE, vd |-> vd]
Unmatched(vd) == [ok |-> FALSE, raised |-> FALSE, vd |-> vd]
Raised(vd) == [ok |-> FALSE, raised |-> TRUE, vd |-> vd]

\* the keys of self.logical_operators
AndConcept(st) == ByName(st, <<"and">>)
OrConcept(st) == ByName(st, <<"or">>)
NotConcept(st) == ByName(st, <<"not">>)
LogicalOperators(st) == {AndConcept(st), OrConcept(st), NotConcept(st)}

RECURSIVE ConceptFitsPremise(_, _, _, _)
RECURSIVE AnyValueFits(_, _, _, _, _)
RECURSIVE EachPremiseValue(_, _, _, _, _)
RECURSIVE EachPremiseAttr(_, _, _, _, _)

\* any(concept_fits_premise(v, pv, vardict) for v in concept.attrs[attr]),
\* from the k-th value on, r the result so far: stops at the first value
\* that fits
AnyValueFits(st, cvals, pv, r, k) ==
    IF r.raised \/ r.ok \/ k > Len(cvals) THEN r
    ELSE AnyValueFits(st, cvals, pv,
                      ConceptFitsPremise(st, cvals[k], pv, r.vd), k + 1)

\* for premise_attr_value in premise.attrs[attr], from the j-th value on,
\* r the result so far
EachPremiseValue(st, cvals, pvals, r, j) ==
    IF r.raised \/ ~r.ok \/ j > Len(pvals) THEN r
    ELSE EachPremiseValue(st, cvals, pvals,
                          AnyValueFits(st, cvals, pvals[j], Unmatched(r.vd), 1),
                          j + 1)

\* the body of `for attr in premise.attrs' for the i-th attribute
PremiseAttr(st, c, p, r, i) ==
    IF ~IsArgRelName(st.names[st.attrs[p][i].attr]) THEN r
    ELSE IF ~HasAttrC(st, c, st.attrs[p][i].attr) THEN Unmatched(r.vd)
    ELSE EachPremiseValue(st, AttrVals(st, c, st.attrs[p][i].attr),
                          st.attrs[p][i].vals, r, 1)

\* for attr in premise.attrs, from the i-th attribute on, r the result so far
EachPremiseAttr(st, c, p, r, i) ==
    IF r.raised \/ ~r.ok \/ i > Len(st.attrs[p]) THEN r
    ELSE EachPremiseAttr(st, c, p, PremiseAttr(st, c, p, r, i), i + 1)

\* the second operand alone decides
AndSecondOnly(st, c, p, r) ==
    IF r.raised THEN r
    ELSE IF ~HasAttr(st, p, Arg1) THEN Raised(r.vd)
    ELSE ConceptFitsPremise(st, c, GetAttr(st, p, Arg1)[1], r.vd)

\* the second operand of `and', r the result of the first
AndSecond(st, c, p, r) ==
    IF r.raised \/ ~r.ok THEN r
    ELSE IF ~HasAttr(st, p, Arg1) THEN Raised(r.vd)
    ELSE ConceptFitsPremise(st, c, GetAttr(st, p, Arg1)[1], r.vd)

\* KIFOntology.concept_fits_premise_conjunction
Conjunction(st, c, p, vd) ==
    IF ~HasAttr(st, p, Arg0) THEN Raised(vd)
    ELSE AndSecond(st, c, p, ConceptFitsPremise(st, c, GetAttr(st, p, Arg0)[1], vd))

\* the bindings of a first operand that failed are dropped
OrSecondRolledBack(st, c, p, r) ==
    IF r.raised \/ r.ok THEN r
    ELSE IF ~HasAttr(st, p, Arg1) THEN Raised(r.vd)
    ELSE ConceptFitsPremise(st, c, GetAttr(st, p, Arg1)[1], EmptyDict)

\* the second operand of `or', r the result of the first
OrSecond(st, c, p, r) ==
    IF r.raised \/ r.ok THEN r
    ELSE IF ~HasAttr(st, p, Arg1) THEN Raised(r.vd)
    ELSE ConceptFitsPremise(st, c, GetAttr(st, p, Arg1)[1], r.vd)

\* KIFOntology.concept_fits_premise_disjunction
Disjunction(st, c, p, vd) ==
    IF ~HasAttr(st, p, Arg0) THEN Raised(vd)
    ELSE OrSecond(st, c, p, ConceptFitsPremise(st, c, GetAttr(st, p, Arg0)[1], vd))

\* not r
Negate(r) == IF r.raised THEN r ELSE [r EXCEPT !.ok = ~r.ok]

\* KIFOntology.concept_fits_premise_negation
Negation(st, c, p, vd) ==
    IF ~HasAttr(st, p, Arg0) THEN Raised(vd)
    ELSE Negate(ConceptFitsPremise(st, c, GetAttr(st, p, Arg0)[1], vd))

\* self.logical_operators[prempred](concept, premise, vardict)
LogicalOperator(st, prempred, c, p, vd) ==
    IF prempred = AndConcept(st) THEN Conjunction(st, c, p, vd)
    ELSE IF prempred = OrConcept(st) THEN Disjunction(st, c, p, vd)
    ELSE Negation(st, c, p, vd)

\* the predicates of the concept and of the premise are not compared
FitsPredicatesOfAny(st, c, p, vd, concpred, prempred) ==
    IF prempred \in LogicalOperators(st) THEN LogicalOperator(st, prempred, c, p, vd)
    ELSE EachPremiseAttr(st, c, p, Matched(vd), 1)

\* concept_fits_premise when both concept and premise have a predicate
FitsPredicates(st, c, p, vd, concpred, prempred) ==
    IF prempred \in LogicalOperators(st) THEN LogicalOperator(st, prempred, c, p, vd)
    ELSE IF concpred # prempred THEN Unmatched(vd)
    ELSE EachPremiseAttr(st, c, p, Matched(vd), 1)

\* the names are compared before the concept is looked at for a variable
ConceptFitsPremiseNamesFirst(st, c, p, vd) ==
    IF ~HasAttr(st, c, HavePredicate)
    THEN IF st.names[c] = st.names[p] THEN Matched(vd)
         ELSE IF StartsWithQ(st.names[c]) THEN Unmatched(vd)
         ELSE IF StartsWithQ(st.names[p]) THEN Matched(Bind(vd, st.names[p], c))
         ELSE Unmatched(vd)
    ELSE IF ~HasAttr(st, p, HavePredicate)
    THEN IF StartsWithQ(st.names[p]) THEN Matched(Bind(vd, st.names[p], c))
         ELSE Unmatched(vd)
    ELSE FitsPredicates(st, c, p, vd, GetAttr(st, c, HavePredicate)[1],
                        GetAttr(st, p, HavePredicate)[1])

\* KIFOntology.concept_fits_premise
ConceptFitsPremise(st, c, p, vd) ==
    IF ~HasAttr(st, c, HavePredicate)
    THEN IF StartsWithQ(st.names[c]) THEN Unmatched(vd)
         ELSE IF st.names[c] = st.names[p] THEN Matched(vd)
         ELSE IF StartsWithQ(st.names[p]) THEN Matched(Bind(vd, st.names[p], c))
         ELSE Unmatched(vd)
    ELSE IF ~HasAttr(st, p, HavePredicate)
    THEN IF StartsWithQ(st.names[p]) THEN Matched(Bind(vd, st.names[p], c))
         ELSE Unmatched(vd)
    ELSE FitsPredicates(st, c, p, vd, GetAttr(st, c, HavePredicate)[1],
                        GetAttr(st, p, HavePredicate)[1])

\* ------------------------------------- the matcher of kifparser.py
\* kifparser.py holds a second KIFOntology; its concept_fits_premise and
\* the lambdas of its logical_operators are followed here.
RECURSIVE KConceptFitsPremise(_, _, _, _)
RECURSIVE KAllValuesFit(_, _, _, _, _)
RECURSIVE KAnyPremiseValue(_, _, _, _, _)
RECURSIVE KEachPremiseAttr(_, _, _, _, _)

\* all(concept_fits_premise(v, pv, vardict) for v in concept.attrs[attr]),
\* from the k-th value on, r the result so far: stops at the first value
\* that does not fit
KAllValuesFit(st, cvals, pv, r, k) ==
    IF r.raised \/ ~r.ok \/ k > Len(cvals) THEN r
    ELSE KAllValuesFit(st, cvals, pv,
                       KConceptFitsPremise(st, cvals[k], pv, r.vd), k + 1)

\* any(all(...) for premise_attr_value in premise.attrs[attr]), from the
\* j-th value on, r the result so far: stops at the first value that all
\* values of the concept fit
KAnyPremiseValue(st, cvals, pvals, r, j) ==
    IF r.raised \/ r.ok \/ j > Len(pvals) THEN r
    ELSE KAnyPremiseValue(st, cvals, pvals,
                          KAllValuesFit(st, cvals, pvals[j], Matched(r.vd), 1),
                          j + 1)

\* the body of `for attr in premise.attrs' for the i-th attribute
KPremiseAttr(st, c, p, r, i) ==
    IF ~IsArgRelName(st.names[st.attrs[p][i].attr]) THEN r
    ELSE IF ~HasAttrC(st, c, st.attrs[p][i].attr) THEN Unmatched(r.vd)
    ELSE KAnyPremiseValue(st, AttrVals(st, c, st.attrs[p][i].attr),
                          st.attrs[p][i].vals, Unmatched(r.vd), 1)

\* for attr in premise.attrs, from the i-th attribute on, r the result so far
KEachPremiseAttr(st, c, p, r, i) ==
    IF r.raised \/ ~r.ok \/ i > Len(st.attrs[p]) THEN r
    ELSE KEachPremiseAttr(st, c, p, KPremiseAttr(st, c, p, r, i), i + 1)

\* the second operand of the lambda of `and', r the result of the first
KAndSecond(st, c, p, r) ==
    IF r.raised \/ ~r.ok THEN r
    ELSE IF ~HasAttr(st, p, Arg1) THEN Raised(r.vd)
    ELSE KConceptFitsPremise(st, c, GetAttr(st, p, Arg1)[1], r.vd)

\* the second operand of the lambda of `or', r the result of the first
KOrSecond(st, c, p, r) ==
    IF r.raised \/ r.ok THEN r
    ELSE IF ~HasAttr(st, p, Arg1) THEN Raised(r.vd)
    ELSE KConceptFitsPremise(st, c, GetAttr(st, p, Arg1)[1], r.vd)

\* self.logical_operators[prempred](concept, premise, vardict)
KLogicalOperator(st, prempred, c, p, vd) ==
    IF ~HasAttr(st, p, Arg0) THEN Raised(vd)
    ELSE IF prempred = AndConcept(st)
    THEN KAndSecond(st, c, p, KConceptFitsPremise(st, c, GetAttr(st, p, Arg0)[1], vd))
    ELSE IF prempred = OrConcept(st)
    THEN KOrSecond(st, c, p, KConceptFitsPremise(st, c, GetAttr(st, p, Arg0)[1], vd))
    ELSE Negate(KConceptFitsPremise(st, c, GetAttr(st, p, Arg0)[1], vd))

\* concept_fits_premise of kifparser.py when both concept and premise have
\* a predicate
KFitsPredicates(st, c, p, vd, concpred, prempred) ==
    IF prempred \in LogicalOperators(st) THEN KLogicalOperator(st, prempred, c, p, vd)
    ELSE IF concpred # prempred THEN Unmatched(vd)
    ELSE KEachPremiseAttr(st, c, p, Matched(vd), 1)

\* KIFOntology.concept_fits_premise of kifparser.py
KConceptFitsPremise(st, c, p, vd) ==
    IF ~HasAttr(st, c, HavePredicate)
    THEN IF StartsWithQ(st.names[c]) THEN Unmatched(vd)
         ELSE IF st.names[c] = st.names[p] THEN Matched(vd)
         ELSE IF StartsWithQ(st.names[p]) THEN Matched(Bind(vd, st.names[p], c))
         ELSE Unmatched(vd)
    ELSE IF ~HasAttr(st, p, HavePredicate)
    THEN IF StartsWithQ(st.names[p]) THEN Matched(Bind(vd, st.names[p], c))
         ELSE Unmatched(vd)
    ELSE KFitsPredicates(st, c, p, vd, GetAttr(st, c, HavePredicate)[1],
                         GetAttr(st, p, HavePredicate)[1])

\* ------------------------------------------------ conclusion instantiation
\* apply_conclusion returns [st, c, is_new].  Its loop over conclusion.attrs
\* carries f = [st, new_attrs, args, is_new], is_new the one of the last
\* argument.
RECURSIVE ApplyConclusion(_, _, _)
RECURSIVE ArgumentLoop(_, _, _, _)

\* new_attrs[attr] = [argvalue]; args.append(argvalue), r the result of the
\* recursive call
Collect(f, a, r) ==
    [st |-> r.st,
     new_attrs |-> Append(f.new_attrs, [attr |-> a, vals |-> <<r.c>>]),
     args |-> Append(f.args, r.c),
     is_new |-> r.is_new]

\* the body of `for attr in conclusion.attrs' for the i-th attribute
Argument(f, vd, conclusion, i) ==
    IF ~IsArgRelName(f.st.names[f.st.attrs[conclusion][i].attr]) THEN f
    ELSE Collect(f, f.st.attrs[conclusion][i].attr,
                 ApplyConclusion(f.st, vd, f.st.attrs[conclusion][i].vals[1]))

\* for attr in conclusion.attrs, from the i-th attribute on
ArgumentLoop(f, vd, conclusion, i) ==
    IF i > Len(f.st.attrs[conclusion]) THEN f
    ELSE ArgumentLoop(Argument(f, vd, conclusion, i), vd, conclusion, i + 1)

\* conc.attrs.update(new_attrs) left out
UpdateAttrsSkipped(st, c, new_attrs, i) == st

\* conc.attrs.update(new_attrs)
RECURSIVE UpdateAttrs(_, _, _, _)
UpdateAttrs(st, c, new_attrs, i) ==
    IF i > Len(new_attrs) THEN st
    ELSE UpdateAttrs(SetAttr(st, c, new_attrs[i].attr, new_attrs[i].vals),
                     c, new_attrs, i + 1)

\* every instantiated conclusion counts as new
IsNewAlways(st, last_is_new, name) == TRUE

\* the name is not looked up: is_new is that of the last argument
IsNewOfLast(st, last_is_new, name) == last_is_new

\* is_new = is_new or (not (name in self.by_name))
IsNew(st, last_is_new, name) == last_is_new \/ ~InStore(st, name)

\* the relation is added the other way round
ConclusionEdgeReversed(st, conclpred, args) ==
    IF Len(args) = 2 THEN AddAttr(st, args[2], conclpred, args[1]) ELSE st

\* the relation replaces the values there were
ConclusionEdgeOverwrites(st, conclpred, args) ==
    IF Len(args) = 2 THEN SetAttr(st, args[1], conclpred, <<args[2]>>) ELSE st

\* if len(args) == 2: args[0].add_attr(conclpred, args[1])
ConclusionEdge(st, conclpred, args) ==
    IF Len(args) = 2 THEN AddAttr(st, args[1], conclpred, args[2]) ELSE st

\* a conclusion whose predicate is `=>' is registered as a rule
ConcludeRegisters(st, conc, conclpred, f, is_new) ==
    IF ~is_new THEN [st |-> st, c |-> conc, is_new |-> FALSE]
    ELSE [st |-> IF st.names[conclpred] = <<"=>">> /\ Len(f.args) = 2
                 THEN AppendImplication(
                          ConclusionEdge(
                              UpdateAttrs(AddNamedAttr(st, conc, HavePredicate, conclpred),
                                          conc, f.new_attrs, 1),
                              conclpred, f.args),
                          f.args[1], f.args[2])
                 ELSE ConclusionEdge(
                          UpdateAttrs(AddNamedAttr(st, conc, HavePredicate, conclpred),
                                      conc, f.new_attrs, 1),
                          conclpred, f.args),
          c |-> conc, is_new |-> TRUE]

\* apply_conclusion from `if not is_new' on, conc being created
Conclude(st, conc, conclpred, f, is_new) ==
    IF ~is_new THEN [st |-> st, c |-> conc, is_new |-> FALSE]
    ELSE [st |-> ConclusionEdge(
                     UpdateAttrs(AddNamedAttr(st, conc, HavePredicate, conclpred),
                                 conc, f.new_attrs, 1),
                     conclpred, f.args),
          c |-> conc, is_new |-> TRUE]

\* apply_conclusion from have_pred = self.create_or_get('have predicate') on
NameConclusion(st, name, conclpred, f) ==
    Conclude(CreateOrGet(st, name), ByName(CreateOrGet(st, name), name),
             conclpred, f, IsNew(st, f.is_new, name))

\* apply_conclusion after its loop
AfterArguments(f, conclpred) ==
    NameConclusion(CreateOrGet(f.st, HavePredicate),
                   SynthName(f.st.names[conclpred], NamesOf(f.st, f.args)),
                   conclpred, f)

\* KIFOntology.apply_conclusion
ApplyConclusion(st, vd, conclusion) ==
    IF ~HasAttr(st, conclusion, HavePredicate)
    THEN IF st.names[conclusion] \in DOMAIN vd
         THEN [st |-> st, c |-> vd[st.names[conclusion]], is_new |-> FALSE]
         ELSE [st |-> st, c |-> conclusion, is_new |-> FALSE]
    ELSE AfterArguments(
             ArgumentLoop([st |-> st, new_attrs |-> <<>>, args |-> <<>>,
                           is_new |-> FALSE], vd, conclusion, 1),
             GetAttr(st, conclusion, HavePredicate)[1])

\* ------------------------------------------------------------ the evaluator
\* A KIF expression is an atom [k, text] or an assertion [k, pred, args].
Atom(t) == [k |-> "atom", text |-> t]
App(p, as) == [k |-> "app", pred |-> p, args |-> as]

\* an item that is an EmptyLine (a newline, a blank line, a comment line)
Nothing == [k |-> "empty"]

GroupCount(st) == Cardinality({c \in DOMAIN st.names : st.names[c][1] = "#group"})

\* the name of the next argument combination
GroupName(st) == <<"#group">> \o Str(GroupCount(st) + 1)

\* for item in items: group.add_attr(include, item)
RECURSIVE IncludeAll(_, _, _, _, _)
IncludeAll(st, g, inc, cs, i) ==
    IF i > Len(cs) THEN st
    ELSE IncludeAll(AddAttr(st, g, inc, cs[i]), g, inc, cs, i + 1)

\* the group named n gets the items cs and is returned
FillGroup(st, n, cs) ==
    Return(IncludeAll(st, ByName(st, n), ByName(st, Include), cs, 1), ByName(st, n))

\* The concept of an argument list of two or more items: a fresh group
\* concept whose `include' values are the items, in order
NewGroup(st, cs) ==
    FillGroup(CreateOrGet(Create(st, GroupName(st)), Include), GroupName(st), cs)

RECURSIVE EvalConc(_, _)
RECURSIVE EvalItems(_, _, _, _)

\* the items of an argument list evaluated left to right: [st, cs]
Collected(st, es, i, cs) == EvalItems(st, es, i + 1, Append(cs, st.ret))

EvalItems(st, es, i, cs) ==
    IF st.raised \/ i > Len(es) THEN [st |-> st, cs |-> cs]
    ELSE Collected(EvalConc(st, es[i]), es, i, cs)

Grouped(r) == IF r.st.raised THEN r.st ELSE NewGroup(r.st, r.cs)

\* arguments_c.eval_conc(): a single argument evaluates to its own concept,
\* an argument combination to a group concept
EvalArguments(st, es) ==
    IF Len(es) = 1 THEN EvalConc(st, es[1])
    ELSE Grouped(EvalItems(st, es, 1, <<>>))

\* self.ontology.call(pred, arguments_c.eval_conc())
EvalCall(st, pred) ==
    IF st.raised THEN st ELSE Call(st, ByName(st, pred), st.ret)

\* self.ontology.create_or_get(text)
Named(st, n) == Return(st, ByName(st, n))

\* SingleArgument.eval_conc and AssertionContent.eval_conc; EmptyLine.eval_conc
\* returns None, 0 here
EvalConc(st, e) ==
    IF e.k = "empty" THEN Return(st, 0)
    ELSE IF e.k = "atom" THEN Named(CreateOrGet(st, e.text), e.text)
    ELSE EvalCall(EvalArguments(CreateOrGet(st, e.pred), e.args), e.pred)

\* ------------------------------------------------------ the KIF items used
X == Atom(<<"?", "X">>)
Y == Atom(<<"?", "Y">>)
Socrates == Atom(<<"Socrates">>)
Human == Atom(<<"Human">>)
Animal == Atom(<<"Animal">>)
Instance(a, b) == App(<<"instance">>, <<a, b>>)

Items == <<
    \* (=> (instance ?X Human) (instance ?X Animal))
    [label |-> "Rule",
     e |-> App(<<"=>">>, <<Instance(X, Human), Instance(X, Animal)>>)],
    \* (instance Socrates Human)
    [label |-> "Fact", e |-> Instance(Socrates, Human)],
    \* (domain instance 1 Human)
    [label |-> "Domain",
     e |-> App(<<"domain">>, <<Atom(<<"instance">>), Atom(<<"1">>), Human>>)],
    \* (<=> (instance ?X Human) (instance ?X Animal))
    [label |-> "Equiv",
     e |-> App(<<"<=>">>, <<Instance(X, Human), Instance(X, Animal)>>)],
    \* (=> (and (instance ?X Human) (instance Socrates ?Y)) (instance ?X Animal))
    [label |-> "AndRule",
     e |-> App(<<"=>">>, <<App(<<"and">>, <<Instance(X, Human), Instance(Socrates, Y)>>),
                           Instance(X, Animal)>>)],
    \* (=> (not (instance ?X Animal)) (instance ?X Human))
    [label |-> "NotRule",
     e |-> App(<<"=>">>, <<App(<<"not">>, <<Instance(X, Animal)>>),
                           Instance(X, Human)>>)],
    \* (=> (instance ?X Human) (instance (f ?X) Human))
    [label |-> "Grow",
     e |-> App(<<"=>">>, <<Instance(X, Human),
                           Instance(App(<<"f">>, <<X>>), Human)>>)],
    \* (=> (instance ?X Human))
    [label |-> "Unary", e |-> App(<<"=>">>, <<Instance(X, Human)>>)],
    \* (=> (instance ?X ?Y) (instance ?Y Animal))
    [label |-> "Chain",
     e |-> App(<<"=>">>, <<Instance(X, Y), Instance(Y, Animal)>>)],
    \* (=> (or (not (instance ?X ?Y)) (instance ?Y Human)) (likes ?X ?Y))
    [label |-> "OrRule",
     e |-> App(<<"=>">>, <<App(<<"or">>, <<App(<<"not">>, <<Instance(X, Y)>>),
                                           Instance(Y, Human)>>),
                           App(<<"likes">>, <<X, Y>>)>>)],
    \* (=> (or ?X (instance ?Y Animal)) (instance Socrates Human))
    [label |-> "OrAtom",
     e |-> App(<<"=>">>, <<App(<<"or">>, <<X, Instance(Y, Animal)>>),
                           Instance(Socrates, Human)>>)],
    \* (=> (and (instance ?X ?X) (instance Socrates ?X)) (instance ?X Animal))
    [label |-> "Rebind",
     e |-> App(<<"=>">>, <<App(<<"and">>, <<Instance(X, X), Instance(Socrates, X)>>),
                           Instance(X, Animal)>>)],
    \* (=> (instance ?X) (instance ?X Animal))
    [label |-> "Short",
     e |-> App(<<"=>">>, <<App(<<"instance">>, <<X>>), Instance(X, Animal)>>)],
    \* ;; Just a test
    [label |-> "Comment", e |-> Nothing],
    \* (=> (and (instance ?X Human)) (instance ?X Animal))
    [label |-> "AndOne",
     e |-> App(<<"=>">>, <<App(<<"and">>, <<Instance(X, Human)>>),
                           Instance(X, Animal)>>)],
    \* (=> (instance ?X Human) (=> ?X Human))
    [label |-> "Derive",
     e |-> App(<<"=>">>, <<Instance(X, Human), App(<<"=>">>, <<X, Human>>)>>)],
    \* (=> (instance ?X Human) (instance ?X Animal) Human)
    [label |-> "Ternary",
     e |-> App(<<"=>">>, <<Instance(X, Human), Instance(X, Animal), Human>>)],
    \* (<=> (instance ?X Human))
    [label |-> "EquivOne", e |-> App(<<"<=>">>, <<Instance(X, Human)>>)],
    \* (<=> (instance ?X Human) (instance ?X Animal) Human)
    [label |-> "EquivThree",
     e |-> App(<<"<=>">>, <<Instance(X, Human), Instance(X, Animal), Human>>)],
    \* (domain (instance Socrates Human) 1 Animal)
    [label |-> "DomainOn",
     e |-> App(<<"domain">>, <<Instance(Socrates, Human), Atom(<<"1">>), Animal>>)]
>>

\* The KIF texts considered: each is a set of assertions (positions in
\* Items) that may be evaluated, in any order and any number of times.
Menus == {{1, 2}, {1, 3}, {2, 3}, {1, 4}, {2, 5}, {2, 6}, {2, 7}, {7, 8}, {2, 9}}

\* ------------------------------------------------------------------ atoms
\* the characters considered; str.isspace, str.isalpha and str.isdigit on them
Chars == {"\n", " ", "\t", "(", ")", "a", "Z", "7", "_", ".", "-", ";", "&", "%",
          "?", "@", "\"", "<", "=", ">", "!", "#"}
IsSpace(char) == char \in {"\n", " ", "\t"}
\* the letters of the keywords and of the words built on them are alphabetic too
IsAlpha(char) == char \in {"a", "Z", "f", "o", "r", "l", "e", "x", "i", "s", "t"}
IsDigit(char) == char \in {"7"}

\* the word characters are given the new name the FIXME proposes, and the
\* class stays registered under the old one
GetCategoryRenamed(char) ==
    IF char = "\n" THEN "newline"
    ELSE IF IsSpace(char) THEN "space"
    ELSE IF char = "(" THEN "lparenthesis"
    ELSE IF char = ")" THEN "rparenthesis"
    ELSE IF IsAlpha(char) \/ IsDigit(char) \/ char = "_" \/ char = "." \/ char = "-"
    THEN "ddualnum"
    ELSE IF char = ";" THEN "semicolon"
    ELSE IF char = "&" THEN "amp"
    ELSE IF char = "%" THEN "percent"
    ELSE IF char = "?" THEN "qmark"
    ELSE IF char = "@" THEN "atsign"
    ELSE IF char = "\"" THEN "quot"
    ELSE IF char \in {"<", "=", ">"} THEN "impl"
    ELSE "unknown"

\* KIFGrammar.Atom.get_category
GetCategory(char) ==
    IF char = "\n" THEN "newline"
    ELSE IF IsSpace(char) THEN "space"
    ELSE IF char = "(" THEN "lparenthesis"
    ELSE IF char = ")" THEN "rparenthesis"
    ELSE IF IsAlpha(char) \/ IsDigit(char) \/ char = "_" \/ char = "." \/ char = "-"
    THEN "ualnum"
    ELSE IF char = ";" THEN "semicolon"
    ELSE IF char = "&" THEN "amp"
    ELSE IF char = "%" THEN "percent"
    ELSE IF char = "?" THEN "qmark"
    ELSE IF char = "@" THEN "atsign"
    ELSE IF char = "\"" THEN "quot"
    ELSE IF char \in {"<", "=", ">"} THEN "impl"
    ELSE "unknown"

\* Atom.categories, as the class definitions fill it
Categories ==
    [semicolon |-> "Semicolon", space |-> "Space", lparenthesis |-> "LParenthesis",
     rparenthesis |-> "RParenthesis", quot |-> "Quot", ualnum |-> "UAlNum",
     newline |-> "NewLine", unknown |-> "Unknown", amp |-> "Amp",
     percent |-> "Percent", qmark |-> "QMark", atsign |-> "AtSign", impl |-> "Impl"]

\* isinstance(obj, KIFGrammar.KIFPart): of the atoms NewLine is one (an
\* EmptyLine, so a KIFItem); "KIFPart" stands for the constituents the
\* agenda builds that are one and "Constituent" for those that are not
IsKIFPart(obj) == obj.cls \in {"NewLine", "KIFPart"}

\* KIFGrammar.Atom(pos, pos + 1, char) with the class get_cls_by_text gives it
AtomAt(pos, char) ==
    [start |-> pos, end |-> pos + 1, cls |-> Categories[GetCategory(char)]]

\* -------------------------------------------------------------------- state
\* names, attrs, descr, implications: the ontology; calls: the calls made so
\* far; gen: the apply_implications generator; yielded: what it has yielded;
\* nexts: the number of next() calls on it; log: the operations so far;
\* menu: the assertions of the KIF text at hand.
VARIABLES names, attrs, descr, implications, calls, gen, yielded, nexts, log, menu
\* doc: the items of the KIF document at hand, when a document is evaluated
\* as a whole.
VARIABLES doc
\* parser: KIFParser.parse and the loop that consumes it, when a text is
\* parsed.
VARIABLES parser
vars == <<names, attrs, descr, implications, calls, gen, yielded, nexts, log, menu,
          doc, parser>>

Store == [names |-> names, attrs |-> attrs, descr |-> descr,
          implications |-> implications, calls |-> calls,
          ret |-> 0, raised |-> FALSE]

SetStore(st) ==
    /\ names' = st.names
    /\ attrs' = st.attrs
    /\ descr' = st.descr
    /\ implications' = st.implications
    /\ calls' = st.calls

EmptyStore == [names |-> <<>>, attrs |-> <<>>, descr |-> <<>>,
               implications |-> <<>>, calls |-> <<>>,
               ret |-> 0, raised |-> FALSE]

\* ontology_conc.add_attr(have_conc_conc, conc_conc)
HaveConcept(st) ==
    AddAttr(st, ByName(st, <<"Ontology">>), ByName(st, <<"have concept">>),
            ByName(st, <<"Concept">>))

\* KIFOntology.__init__
NewOntology ==
    CreateOrGet(CreateOrGet(CreateOrGet(
        HaveConcept(CreateOrGet(CreateOrGet(CreateOrGet(EmptyStore,
            <<"Ontology">>), <<"Concept">>), <<"have concept">>)),
        <<"and">>), <<"or">>), <<"not">>)

\* The generator: status, whether a pass is under way, the snapshot and the
\* position of its loops, new_concepts_created (found); and, as history, the
\* number of passes begun (pass), of concepts yielded in the pass under way
\* (inpass) and in the pass before it (last), and the number of concepts of
\* the store when apply_implications was called (base).
NoGenerator == [status |-> "idle", started |-> FALSE, snap |-> <<>>,
                ci |-> 1, ri |-> 1, found |-> FALSE,
                pass |-> 0, inpass |-> 0, last |-> 0, base |-> 0]

\* largest = None
None == [start |-> 0, end |-> 0, cls |-> "None"]

\* The parser and the loop over what it yields: the text io, the number pos
\* of characters put so far, the constituents yielded and not yet taken by
\* the loop (pending), those taken (seen), `largest' of main and `largest'
\* of the loop of the package usage and of the test (usage); raised: the
\* KeyError of get_cls_by_text.
NoParser == [io |-> <<>>, pos |-> 0, pending |-> <<>>, seen |-> <<>>,
             largest |-> None, usage |-> None, raised |-> FALSE]

Init ==
    /\ names = NewOntology.names
    /\ attrs = NewOntology.attrs
    /\ descr = NewOntology.descr
    /\ implications = NewOntology.implications
    /\ calls = <<>>
    /\ gen = NoGenerator
    /\ yielded = <<>>
    /\ nexts = 0
    /\ log = <<>>
    /\ menu \in Menus
    /\ doc = <<>>
    /\ parser = NoParser

EvalCount == Cardinality({i \in DOMAIN log : log[i] \notin {"run", "done", "raised"}})
RunCount == Cardinality({i \in DOMAIN log : log[i] = "run"})

\* for attr, value in item_conc.attrs.items(): the arguments of the item
\* become concepts of the ontology concept conc, from the i-th attribute on
RECURSIVE HaveArguments(_, _, _, _, _)
HaveArguments(st, conc, have_conc, item_conc, i) ==
    IF i > Len(st.attrs[item_conc]) THEN st
    ELSE IF IsArgRelName(st.names[st.attrs[item_conc][i].attr])
    THEN HaveArguments(AddAttr(st, conc, have_conc, st.attrs[item_conc][i].vals[1]),
                       conc, have_conc, item_conc, i + 1)
    ELSE HaveArguments(st, conc, have_conc, item_conc, i + 1)

\* the arguments of the item are not copied
HaveItemOnly(st, conc, have_conc) ==
    IF st.raised \/ st.ret = 0 THEN st
    ELSE AddAttr(st, conc, have_conc, st.ret)

\* the body of `for item in items' after item_conc = item.eval_conc()
HaveItem(st, conc, have_conc) ==
    IF st.raised \/ st.ret = 0 THEN st
    ELSE AddAttr(HaveArguments(st, conc, have_conc, st.ret, 1), conc, have_conc, st.ret)

\* KIF.eval_conc for one item
EvalItem(st, e) ==
    HaveItem(EvalConc(st, e), ByName(st, <<"Ontology">>), ByName(st, <<"have concept">>))

\* One top-level assertion of a KIF text is evaluated.
Eval(k) ==
    /\ k \in menu
    /\ EvalCount < MaxEvals
    /\ SetStore(EvalItem(Store, Items[k].e))
    /\ log' = Append(log, Items[k].label)
    /\ UNCHANGED <<gen, yielded, nexts, menu, doc, parser>>

\* ----------------------------------------------------- apply_implications
\* list(self)
Snapshot(st) == [i \in 1..Len(st.names) |-> i]

\* concept_fits_premise(concept, premise, vardict=vd) with vd = {} at the
\* position (ci, ri) of the two loops
MatchAt(st, g, ci, ri) ==
    ConceptFitsPremise(st, g.snap[ci], st.implications[ri][1], EmptyDict)

\* c, is_new = self.apply_conclusion(vd, conclusion) after the match m
Applied(st, m, ri) == ApplyConclusion(st, m.vd, st.implications[ri][2])

\* The body of the loops does something for the match m of rule ri: the
\* match raises, or it succeeds and the conclusion is new or changes the
\* store.  Otherwise the body leaves everything as it is.
Effective(st, r) == r.is_new \/ r.st # st
Acts(st, m, ri) == m.raised \/ (m.ok /\ Effective(st, Applied(st, m, ri)))

\* The positions of the pass, from the current one on, where the body of
\* the loops does something.
Hits(st, g) ==
    UNION {IF /\ pos[1] > g.ci \/ pos[2] >= g.ri
              /\ Acts(st, MatchAt(st, g, pos[1], pos[2]), pos[2])
           THEN {pos} ELSE {} :
           pos \in (g.ci..Len(g.snap)) \X (1..Len(st.implications))}

Before(p, q) == p[1] < q[1] \/ (p[1] = q[1] /\ p[2] <= q[2])

First(hits) == CHOOSE p \in hits : \A q \in hits : Before(p, q)

At(g, pos) == [g EXCEPT !.ci = pos[1], !.ri = pos[2]]

\* The generator runs from its position g to its next yield, to its end or
\* to an exception: [st, gen, out], out the yielded concept or 0.
\* new_concepts_created is set when the generator is resumed after the
\* yield; nothing reads it in between, so it is set here with the yield.
RECURSIVE Resume(_, _)

\* new_concepts_created is not set after the yield
YieldUnflagged(g, r) ==
    IF r.is_new
    THEN [st |-> r.st, gen |-> [g EXCEPT !.ri = @ + 1, !.inpass = @ + 1], out |-> r.c]
    ELSE Resume(r.st, [g EXCEPT !.ri = @ + 1])

\* if is_new: yield c, r the result of apply_conclusion at the position g
Yield(g, r) ==
    IF r.is_new
    THEN [st |-> r.st,
          gen |-> [g EXCEPT !.ri = @ + 1, !.found = TRUE, !.inpass = @ + 1],
          out |-> r.c]
    ELSE Resume(r.st, [g EXCEPT !.ri = @ + 1])

\* the body of the loops at the position g, m the match there
Body(st, g, m) ==
    IF m.raised THEN [st |-> st, gen |-> [g EXCEPT !.status = "raised"], out |-> 0]
    ELSE Yield(g, Applied(st, m, g.ri))

\* the pass is never repeated
AdvanceOnce(st, g, hits) ==
    IF hits # {}
    THEN Body(st, At(g, First(hits)),
              MatchAt(st, g, First(hits)[1], First(hits)[2]))
    ELSE [st |-> st,
          gen |-> [g EXCEPT !.status = "done", !.ci = Len(g.snap) + 1, !.ri = 1],
          out |-> 0]

\* the loops go on to the first position where the body does something;
\* when there is none the pass ends: another pass when this one created
\* a concept, else the generator is exhausted
Advance(st, g, hits) ==
    IF hits # {}
    THEN Body(st, At(g, First(hits)),
              MatchAt(st, g, First(hits)[1], First(hits)[2]))
    ELSE IF g.found THEN Resume(st, [g EXCEPT !.started = FALSE])
    ELSE [st |-> st,
          gen |-> [g EXCEPT !.status = "done", !.ci = Len(g.snap) + 1, !.ri = 1],
          out |-> 0]

Resume(st, g) ==
    IF ~g.started
    THEN Resume(st, [g EXCEPT !.started = TRUE, !.snap = Snapshot(st),
                              !.ci = 1, !.ri = 1, !.found = FALSE,
                              !.pass = @ + 1, !.inpass = 0, !.last = g.inpass])
    ELSE Advance(st, g, Hits(st, g))

\* apply_implications() is called: a generator is created, its body not
\* yet started.  One generator is followed at a time.
GenStart ==
    /\ RunCount < MaxRuns
    /\ gen.status # "running"
    /\ gen' = [NoGenerator EXCEPT !.status = "running", !.base = Len(names)]
    /\ yielded' = <<>>
    /\ nexts' = 0
    /\ log' = Append(log, "run")
    /\ UNCHANGED <<names, attrs, descr, implications, calls, menu, doc, parser>>

\* the generator has run to r
Resumed(r) ==
    /\ SetStore(r.st)
    /\ gen' = r.gen
    /\ yielded' = IF r.out = 0 THEN yielded ELSE Append(yielded, r.out)
    /\ log' = IF r.gen.status = "running" THEN log ELSE Append(log, r.gen.status)
    /\ UNCHANGED <<menu, doc, parser>>

\* The runs are followed as long as the names of the concepts yielded are
\* at most MaxNameLen lexemes long.
Bounded == \A i \in DOMAIN yielded : Len(names[yielded[i]]) <= MaxNameLen

\* the consumer calls next() on the generator
Consume ==
    /\ gen.status = "running"
    /\ Bounded
    /\ nexts' = nexts + 1

\* next() on the generator
GenNext ==
    /\ Consume
    /\ Resumed(Resume(Store, gen))

Next ==
    \/ \E k \in DOMAIN Items : Eval(k)
    \/ GenStart
    \/ GenNext

Spec == Init /\ [][Next]_vars

\* The consumer iterates the generator to its end: it goes on calling next().
\* The steps that change nexts by Consume are the GenNext steps, and GenNext
\* is enabled exactly when Consume is.
FairSpec == Spec /\ WF_nexts(Consume)

\* ------------------------------------------------- whole KIF documents
\* for item in items, from the i-th item on; an exception ends the loop
RECURSIVE KIFItems(_, _, _)
KIFItems(st, es, i) ==
    IF st.raised \/ i > Len(es) THEN st
    ELSE KIFItems(EvalItem(st, es[i]), es, i + 1)

\* KIF.eval_conc on the items of a document
KIFEvalConc(st, items) ==
    KIFItems(CreateOrGet(CreateOrGet(st, <<"Ontology">>), <<"have concept">>),
             [i \in DOMAIN items |-> Items[items[i]].e], 1)

\* the items documents are made of, and the documents considered: every
\* sequence of one to MaxItems of them
DocItems == {2, 3, 10, 11, 12, 13, 14}
Documents == UNION {[1..n -> DocItems] : n \in 1..MaxItems}

DocInit ==
    /\ names = NewOntology.names
    /\ attrs = NewOntology.attrs
    /\ descr = NewOntology.descr
    /\ implications = NewOntology.implications
    /\ calls = <<>>
    /\ gen = NoGenerator
    /\ yielded = <<>>
    /\ nexts = 0
    /\ log = <<>>
    /\ menu = {}
    /\ doc \in Documents
    /\ parser = NoParser

\* largest.eval_conc(): the document is evaluated, once
EvalDoc ==
    /\ doc # <<>>
    /\ EvalCount = 0
    /\ SetStore(KIFEvalConc(Store, doc))
    /\ log' = log \o [i \in DOMAIN doc |-> Items[doc[i]].label]
    /\ UNCHANGED <<gen, yielded, nexts, menu, doc, parser>>

\* conc.ontology.apply_implications() on the ontology of the evaluated
\* document
ApplyToDoc ==
    /\ EvalCount > 0
    /\ GenStart

DocNext ==
    \/ EvalDoc
    \/ ApplyToDoc
    \/ GenNext

DocSpec == DocInit /\ [][DocNext]_vars

\* ------------------------------------- implications of any number of arguments
\* The documents of rules and equivalences with one, two and three
\* arguments.
CallItems == {1, 2, 4, 8, 17, 18, 19}
CallDocuments == UNION {[1..n -> CallItems] : n \in 1..MaxItems}

CallInit ==
    /\ names = NewOntology.names
    /\ attrs = NewOntology.attrs
    /\ descr = NewOntology.descr
    /\ implications = NewOntology.implications
    /\ calls = <<>>
    /\ gen = NoGenerator
    /\ yielded = <<>>
    /\ nexts = 0
    /\ log = <<>>
    /\ menu = {}
    /\ doc \in CallDocuments
    /\ parser = NoParser

CallSpec == CallInit /\ [][DocNext]_vars

\* --------------------------------------------- documents for the closure
\* The documents of the fact, of the rules with a nested conclusion, with
\* an `and' of one operand and with an implication as conclusion, and of
\* the domain declaration on an assertion.
ClosureItems == {2, 7, 15, 16, 20}
ClosureDocuments == UNION {[1..n -> ClosureItems] : n \in 1..MaxItems}

ClosureInit ==
    /\ names = NewOntology.names
    /\ attrs = NewOntology.attrs
    /\ descr = NewOntology.descr
    /\ implications = NewOntology.implications
    /\ calls = <<>>
    /\ gen = NoGenerator
    /\ yielded = <<>>
    /\ nexts = 0
    /\ log = <<>>
    /\ menu = {}
    /\ doc \in ClosureDocuments
    /\ parser = NoParser

ClosureSpec == ClosureInit /\ [][DocNext]_vars

\* ----------------------------------------------------- parsing a text
\* the texts considered
Texts == UNION {[1..n -> Chars] : n \in 0..MaxTextLen}

\* obj.end - obj.start
Span(obj) == obj.end - obj.start

\* the constituent of smallest span is kept
MainLoopSmallest(largest, obj) ==
    IF largest = None
    THEN IF IsKIFPart(obj) THEN obj ELSE largest
    ELSE IF IsKIFPart(obj) /\ Span(obj) < Span(largest) THEN obj
    ELSE largest

\* the body of `for obj in p.parse(sys.stdin)' of main
MainLoop(largest, obj) ==
    IF largest = None
    THEN IF IsKIFPart(obj) THEN obj ELSE largest
    ELSE IF IsKIFPart(obj) /\ Span(obj) > Span(largest) THEN obj
    ELSE largest

\* the body of `for obj in p.parse(...)' of the test and of the package usage
UsageLoop(largest, obj) ==
    IF largest = None THEN obj
    ELSE IF Span(obj) > Span(largest) THEN obj
    ELSE largest

\* parse puts the next character: the atom is made, its class looked up in
\* Atom.categories, and the agenda yields it.  The constituents the agenda
\* builds from the atoms are not followed here.
Put ==
    /\ ~parser.raised
    /\ parser.pending = <<>>
    /\ parser.pos < Len(parser.io)
    /\ parser' =
           IF GetCategory(parser.io[parser.pos + 1]) \in DOMAIN Categories
           THEN [parser EXCEPT !.pos = @ + 1,
                               !.pending = <<AtomAt(parser.pos,
                                                    parser.io[parser.pos + 1])>>]
           ELSE [parser EXCEPT !.raised = TRUE]
    /\ UNCHANGED <<names, attrs, descr, implications, calls, gen, yielded, nexts,
                   log, menu, doc>>

\* the loops take the next constituent the parser yields
Take ==
    /\ parser.pending # <<>>
    /\ parser' = [parser EXCEPT
                      !.pending = Tail(@),
                      !.seen = Append(@, Head(parser.pending)),
                      !.largest = MainLoop(@, Head(parser.pending)),
                      !.usage = UsageLoop(@, Head(parser.pending))]
    /\ UNCHANGED <<names, attrs, descr, implications, calls, gen, yielded, nexts,
                   log, menu, doc>>

\* the ontology of the grammar, nothing evaluated
OntologyInit ==
    /\ names = NewOntology.names
    /\ attrs = NewOntology.attrs
    /\ descr = NewOntology.descr
    /\ implications = NewOntology.implications
    /\ calls = <<>>
    /\ gen = NoGenerator
    /\ yielded = <<>>
    /\ nexts = 0
    /\ log = <<>>
    /\ menu = {}
    /\ doc = <<>>

\* a text is parsed
ParseInit ==
    /\ OntologyInit
    /\ parser \in {[NoParser EXCEPT !.io = t] : t \in Texts}

ParseNext ==
    \/ Put
    \/ Take

ParseSpec == ParseInit /\ [][ParseNext]_vars

\* The constituents a parse may complete: every span within MaxTextLen
\* characters, of a class that is a KIFPart or of one that is not; and the
\* sequences of them the parser may yield.
Constituents ==
    {o \in [start : 0..MaxTextLen, end : 0..MaxTextLen, cls : {"KIFPart", "Constituent"}] :
        o.start < o.end}
Completed == UNION {[1..n -> Constituents] : n \in 0..MaxCompleted}

\* the loops run over a sequence of completed constituents
SelectInit ==
    /\ OntologyInit
    /\ parser \in {[NoParser EXCEPT !.pending = s] : s \in Completed}

SelectNext == Take

SelectSpec == SelectInit /\ [][SelectNext]_vars

\* ------------------------------------------------------ literals of a text
\* The words considered: runs of word characters, among them the keywords
\* and words that begin or end with one.
ForallText == <<"f", "o", "r", "a", "l", "l">>
ExistsText == <<"e", "x", "i", "s", "t", "s">>
Words == {ForallText, ExistsText,
          ForallText \o <<"x">>, ExistsText \o <<"_", "7">>,
          <<"x">> \o ForallText, <<"f", "o", "r", "a">>, <<"Z", "7">>, <<"a">>}

\* Literal.literals, as the class definitions of Forall and Exists fill it
literals == (ForallText :> "Forall") @@ (ExistsText :> "Exists")

\* obj.get_text(): the characters of the span
GetText(io, obj) == SubSeq(io, obj.start + 1, obj.end)

\* isinstance(obj, KIFGrammar.Literal): UAlNum and ComplexLiteral inherit
\* Literal; Forall and Exists are QuantorLiteral and AtomicConstituent only
IsLiteral(obj) == obj.cls \in {"UAlNum", "ComplexLiteral"}

\* isinstance(obj, KIFGrammar.LiteralStart): Literal is the one class that
\* inherits LiteralStart
IsLiteralStart(obj) == IsLiteral(obj)

\* isinstance(obj, KIFGrammar.Predicate) and
\* isinstance(obj, KIFGrammar.NonspacedSingleArgument), by way of Literal
IsPredicate(obj) == IsLiteral(obj)
IsNonspacedSingleArgument(obj) == IsLiteral(obj)

\* isinstance(obj, KIFGrammar.QuantorLiteral)
IsQuantorLiteral(obj) == obj.cls \in {"Forall", "Exists"}

\* Literal.__init__: the class is replaced when the text is in literals
Literal_init(io, obj) ==
    IF GetText(io, obj) \in DOMAIN literals
    THEN [obj EXCEPT !.cls = literals[GetText(io, obj)]]
    ELSE obj

\* ComplexLiteral -> LiteralStart UAlNum, for the atom just put: a
\* ComplexLiteral for every constituent of the chart that is a LiteralStart
\* and ends where the atom starts, from the shortest to the longest
RECURSIVE ComplexLiteral(_, _, _, _)
ComplexLiteral(io, chart, atom, start) ==
    IF start < 0 \/ atom.cls # "UAlNum" THEN <<>>
    ELSE (IF \E left \in chart :
                 IsLiteralStart(left) /\ left.start = start /\ left.end = atom.start
          THEN <<Literal_init(io, [start |-> start, end |-> atom.end,
                                   cls |-> "ComplexLiteral"])>>
          ELSE <<>>)
         \o ComplexLiteral(io, chart, atom, start - 1)

\* parse puts the next character and yields what the agenda completes: the
\* atom, and the literals that end with it.  A rule applies to a left and a
\* right constituent that are instances of the classes it lists and are
\* adjacent; the other rules of the grammar are not followed.
PutLiteral ==
    /\ ~parser.raised
    /\ parser.pending = <<>>
    /\ parser.pos < Len(parser.io)
    /\ parser' =
           IF GetCategory(parser.io[parser.pos + 1]) \in DOMAIN Categories
           THEN LET made == AtomAt(parser.pos, parser.io[parser.pos + 1])
                    atom == IF IsLiteral(made) THEN Literal_init(parser.io, made)
                            ELSE made
                    chart == {parser.seen[i] : i \in DOMAIN parser.seen}
                IN  [parser EXCEPT
                         !.pos = @ + 1,
                         !.pending = <<atom>> \o ComplexLiteral(parser.io, chart, atom,
                                                                parser.pos - 1)]
           ELSE [parser EXCEPT !.raised = TRUE]
    /\ UNCHANGED <<names, attrs, descr, implications, calls, gen, yielded, nexts,
                   log, menu, doc>>

\* a word is parsed
WordInit ==
    /\ OntologyInit
    /\ parser \in {[NoParser EXCEPT !.io = w] : w \in Words}

WordNext ==
    \/ PutLiteral
    \/ Take

WordSpec == WordInit /\ [][WordNext]_vars

\* ------------------------------------------------------------ properties
Range(f) == {f[i] : i \in DOMAIN f}

InstanceName(a, b) == SynthName(<<"instance">>, <<a, b>>)
SocratesHuman == InstanceName(<<"Socrates">>, <<"Human">>)
SocratesAnimal == InstanceName(<<"Socrates">>, <<"Animal">>)

\* the values of the attribute named n of concept c, <<>> when it has none
Values(st, c, n) == IF HasAttr(st, c, n) THEN GetAttr(st, c, n) ELSE <<>>

\* the rule and the fact evaluated, in either order, and nothing else
RuleAndFact == {<<"Rule", "Fact">>, <<"Fact", "Rule">>}

\* c is named instance(Socrates, Animal), its predicate is instance and its
\* arguments #0 and #1 are Socrates and Animal
IsSocratesAnimal(c) ==
    /\ names[c] = SocratesAnimal
    /\ NamesOf(Store, Values(Store, c, HavePredicate)) = << <<"instance">> >>
    /\ NamesOf(Store, Values(Store, c, Arg0)) = << <<"Socrates">> >>
    /\ NamesOf(Store, Values(Store, c, Arg1)) = << <<"Animal">> >>

\* C1: from the store of the rule (=> (instance ?X Human) (instance ?X Animal))
\* and the fact (instance Socrates Human), the first run of apply_implications
\* yields exactly one concept, instance(Socrates, Animal), which was not in
\* the store before and is tagged with its predicate and its two arguments;
\* the second run yields nothing.
C1_FirstRunYieldsSecondNone ==
    \A b \in RuleAndFact :
        /\ log = b \o <<"run">> =>
              \/ yielded = <<>> /\ ~InStore(Store, SocratesAnimal)
              \/ Len(yielded) = 1 /\ IsSocratesAnimal(yielded[1])
        /\ log = b \o <<"run", "done">> =>
              Len(yielded) = 1 /\ IsSocratesAnimal(yielded[1])
        /\ log \in {b \o <<"run", "done", "run">>,
                    b \o <<"run", "done", "run", "done">>} =>
              yielded = <<>> /\ InStore(Store, SocratesAnimal)

\* the second run over the rule and the fact is exhausted
C1_Witness ==
    /\ \E b \in RuleAndFact : log = b \o <<"run", "done", "run", "done">>
    /\ yielded = <<>>
    /\ IsSocratesAnimal(ByName(Store, SocratesAnimal))

RECURSIVE ArgumentValues(_, _, _)
ArgumentValues(st, t, i) ==
    IF i > Len(st.attrs[t]) THEN <<>>
    ELSE IF IsArgRelName(st.names[st.attrs[t][i].attr])
    THEN <<st.attrs[t][i].vals[1]>> \o ArgumentValues(st, t, i + 1)
    ELSE ArgumentValues(st, t, i + 1)

\* the name of the conclusion t with the variables bound in vd replaced
RECURSIVE Instantiated(_, _, _)
Instantiated(st, vd, t) ==
    IF ~HasAttr(st, t, HavePredicate)
    THEN IF st.names[t] \in DOMAIN vd THEN st.names[vd[st.names[t]]]
         ELSE st.names[t]
    ELSE SynthName(st.names[GetAttr(st, t, HavePredicate)[1]],
                   [i \in DOMAIN ArgumentValues(st, t, 1) |->
                       Instantiated(st, vd, ArgumentValues(st, t, 1)[i])])

\* the concept c fits the premise of the implication ri, with a fresh vardict
Fits(st, c, ri) == ConceptFitsPremise(st, c, st.implications[ri][1], EmptyDict)

Closed(st) ==
    \A c \in DOMAIN st.names, ri \in DOMAIN st.implications :
        LET fit == Fits(st, c, ri)
        IN  fit.ok => InStore(st, Instantiated(st, fit.vd, st.implications[ri][2]))

\* apply_implications has just run to exhaustion
Exhausted == gen.status = "done" /\ log # <<>> /\ log[Len(log)] = "done"

\* C3: when apply_implications has run to exhaustion, for every concept and
\* every implication whose premise the concept fits, the concept named by
\* the conclusion instantiated with the bindings is in the store.
C3_ClosedAtExhaustion == Exhausted => Closed(Store)

\* exhausted after yielding, with a concept that fits a premise
C3_Witness ==
    /\ Exhausted
    /\ Len(yielded) = 2
    /\ \E c \in DOMAIN names, ri \in DOMAIN implications : Fits(Store, c, ri).ok

\* the argument list of a call, as the store shows it
ArgumentList(arguments) ==
    IF HasAttr(Store, arguments, Include) THEN GetAttr(Store, arguments, Include)
    ELSE <<arguments>>

\* the values in vals of the attribute named n
ValuesIn(alist, n) ==
    UNION {Range(alist[i].vals) : i \in {j \in DOMAIN alist : names[alist[j].attr] = n}}

\* C4: a call that returns returns the concept named
\* predicate.name(a0.name, ..., a(n-1).name), a0..a(n-1) the values of
\* `include' of arguments or arguments itself, and on return the concept
\* has predicate among its `have predicate' values and a_i among its
\* `have argument #i' values.
C4_CallReturnsTagged ==
    \A k \in DOMAIN calls :
        ~calls[k].raised =>
            /\ calls[k].args = ArgumentList(calls[k].arguments)
            /\ names[calls[k].ret] =
                   SynthName(names[calls[k].pred],
                             NamesOf(Store, ArgumentList(calls[k].arguments)))
            /\ calls[k].pred \in ValuesIn(calls[k].postRet, HavePredicate)
            /\ \A i \in DOMAIN ArgumentList(calls[k].arguments) :
                   ArgumentList(calls[k].arguments)[i] \in
                       ValuesIn(calls[k].postRet, HaveArgument(Str(i - 1)))

\* a call with a single argument and a call with a list of two have returned
C4_Witness ==
    /\ \E k \in DOMAIN calls :
          ~calls[k].raised /\ ~HasAttr(Store, calls[k].arguments, Include)
    /\ \E k \in DOMAIN calls :
          ~calls[k].raised /\ Len(ArgumentList(calls[k].arguments)) = 2

\* C5: two calls with the same predicate concept and the same argument
\* concepts in the same order return the same concept, whatever happened
\* between them.
C5_SameCallSameConcept ==
    \A j, k \in DOMAIN calls :
        (/\ ~calls[j].raised /\ ~calls[k].raised
         /\ calls[j].pred = calls[k].pred
         /\ calls[j].args = calls[k].args) =>
            calls[j].ret = calls[k].ret

\* the fact is asserted, apply_implications yields a concept, and the fact is
\* asserted again: the two calls, with other calls between them, return the
\* same concept
C5_Witness ==
    /\ Len(yielded) > 0
    /\ \E j, k \in DOMAIN calls :
          /\ j + 1 < k
          /\ calls[j].postNames < calls[k].preNames
          /\ ~calls[j].raised /\ ~calls[k].raised
          /\ calls[j].pred = calls[k].pred
          /\ calls[j].args = calls[k].args
          /\ calls[j].ret = calls[k].ret

\* the k-th call is `pred(a, b)' with neither a nor b a variable
TwoConstants(k) ==
    /\ Len(calls[k].args) = 2
    /\ ~StartsWithQ(names[calls[k].args[1]])
    /\ ~StartsWithQ(names[calls[k].args[2]])

\* the ordered dict alist after add_attr(a, v)
WithValue(alist, a, v) ==
    IF AttrPos(alist, a) # {}
    THEN [alist EXCEPT ![CHOOSE i \in AttrPos(alist, a) : TRUE].vals = Append(@, v)]
    ELSE Append(alist, [attr |-> a, vals |-> <<v>>])

\* the attributes of the arguments after the k-th call when all it does to
\* them is to add the relation arg0 --predicate--> arg1
WithEdge(k) ==
    [i \in DOMAIN calls[k].args |->
        IF calls[k].args[i] = calls[k].args[1]
        THEN WithValue(calls[k].preArgs[i], calls[k].pred, calls[k].args[2])
        ELSE calls[k].preArgs[i]]

\* the attributes of the arguments after the k-th call, a call of domain,
\* when all it does to them is the declaration pred --have argument #i--> cls
WithDomain(k) ==
    [i \in DOMAIN calls[k].args |->
        IF calls[k].args[i] = calls[k].args[1]
        THEN WithValue(calls[k].preArgs[i],
                       ByName(Store, HaveArgument(names[calls[k].args[2]])),
                       calls[k].args[3])
        ELSE calls[k].preArgs[i]]

\* C6 as claimed: a call adds the relation arg0 --predicate--> arg1 when it
\* has exactly two arguments and neither is a variable, and in every other
\* case it leaves the attributes of all its arguments as they were.
C6_EdgeOrNothing ==
    \A k \in DOMAIN calls :
        calls[k].postArgs = IF ~calls[k].raised /\ TwoConstants(k) THEN WithEdge(k)
                            ELSE calls[k].preArgs

\* C6: a call adds the relation arg0 --predicate--> arg1 exactly when it has
\* two arguments and neither is a variable; a call of domain with three
\* arguments adds cls to the `have argument #argno' values of its first
\* argument; every other call leaves the attributes of all its arguments as
\* they were.
C6_EdgeDomainOrNothing ==
    \A k \in DOMAIN calls :
        calls[k].postArgs =
            IF calls[k].raised THEN calls[k].preArgs
            ELSE IF TwoConstants(k) THEN WithEdge(k)
            ELSE IF names[calls[k].pred] = <<"domain">> THEN WithDomain(k)
            ELSE calls[k].preArgs

\* a call on two constants, a call on a variable and a constant and a call
\* of domain have returned
C6_Witness ==
    /\ \E k \in DOMAIN calls : ~calls[k].raised /\ TwoConstants(k)
    /\ \E k \in DOMAIN calls :
          /\ ~calls[k].raised /\ Len(calls[k].args) = 2 /\ ~TwoConstants(k)
          /\ calls[k].postArgs = calls[k].preArgs
    /\ \E k \in DOMAIN calls :
          /\ ~calls[k].raised /\ names[calls[k].pred] = <<"domain">>
          /\ calls[k].postArgs # calls[k].preArgs

\* the values of the attribute a of concept c, <<>> when it has none
ValuesOf(c, a) == IF HasAttrC(Store, c, a) THEN AttrVals(Store, c, a) ELSE <<>>

DomainAndFact == {"Domain", "Fact"} \subseteq Range(log)

\* C7: once (domain instance 1 Human) and (instance Socrates Human) are
\* evaluated, in either order, there is one concept named
\* `have argument #1', and under it Human is a value of instance (the
\* declaration) and a value of instance(Socrates, Human) (the argument).
C7_BothUnderOneRelation ==
    DomainAndFact =>
        /\ Cardinality({c \in DOMAIN names : names[c] = Arg1}) = 1
        /\ ByName(Store, <<"Human">>) \in
               Range(ValuesOf(ByName(Store, <<"instance">>), ByName(Store, Arg1)))
        /\ ByName(Store, <<"Human">>) \in
               Range(ValuesOf(ByName(Store, SocratesHuman), ByName(Store, Arg1)))

\* both orders: the fact then the declaration, with a run of
\* apply_implications after them
C7_Witness ==
    /\ DomainAndFact
    /\ log[1] = "Fact"
    /\ "done" \in Range(log)
    /\ ByName(Store, <<"Human">>) \in
           Range(ValuesOf(ByName(Store, <<"instance">>), ByName(Store, Arg1)))

\* the pairs the call rec appends to the implications, nm the names
Appended(nm, rec) ==
    IF rec.raised \/ Len(rec.args) # 2 THEN <<>>
    ELSE IF nm[rec.pred] = <<"=>">> THEN << <<rec.args[1], rec.args[2]>> >>
    ELSE IF nm[rec.pred] = <<"<=>">>
    THEN << <<rec.args[1], rec.args[2]>>, <<rec.args[2], rec.args[1]>> >>
    ELSE <<>>

\* the pairs the calls cs append, from the k-th call on
RECURSIVE AppendedFrom(_, _, _)
AppendedFrom(nm, cs, k) ==
    IF k > Len(cs) THEN <<>>
    ELSE Appended(nm, cs[k]) \o AppendedFrom(nm, cs, k + 1)

\* C8: every step leaves the implications as they were but for the pairs
\* its calls append at the end, and each call appends (premise, conclusion)
\* when its predicate is =>, (a, b) then (b, a) when it is <=>, and nothing
\* otherwise.
C8_ImplicationsByCalls ==
    [][/\ implications' = implications \o AppendedFrom(names', calls', Len(calls) + 1)
       /\ \A k \in (Len(calls) + 1)..Len(calls') :
             calls'[k].postImpl = calls'[k].preImpl \o Appended(names', calls'[k])]_vars

\* the rule then the equivalence are evaluated and apply_implications has run
C8_Witness ==
    /\ Len(implications) = 3
    /\ implications[1] = implications[2]
    /\ implications[3] = <<implications[2][2], implications[2][1]>>
    /\ implications[1][1] # implications[1][2]
    /\ "done" \in Range(log)

\* the premises (and A B) of the store
AndPremises ==
    {p \in DOMAIN names :
        /\ HasAttr(Store, p, HavePredicate)
        /\ GetAttr(Store, p, HavePredicate)[1] = AndConcept(Store)
        /\ HasAttr(Store, p, Arg0) /\ HasAttr(Store, p, Arg1)}

\* concept_fits_premise(c, p, {})
Match(c, p) == ConceptFitsPremise(Store, c, p, EmptyDict)

FirstOperand(p) == GetAttr(Store, p, Arg0)[1]
SecondOperand(p) == GetAttr(Store, p, Arg1)[1]

\* C9: a concept fits a premise (and A B) only if it fits A and it fits B,
\* with a fresh vardict as with the vardict the match of A leaves.
C9_AndNeedsBoth ==
    \A p \in AndPremises, c \in DOMAIN names :
        Match(c, p).ok =>
            /\ Match(c, FirstOperand(p)).ok
            /\ Match(c, SecondOperand(p)).ok
            /\ ConceptFitsPremise(Store, c, SecondOperand(p),
                                  Match(c, FirstOperand(p)).vd).ok

\* a concept fits (and A B), and another fits B and not A
C9_Witness ==
    \E p \in AndPremises :
        /\ \E c \in DOMAIN names : Match(c, p).ok
        /\ \E c \in DOMAIN names :
              /\ ~Match(c, p).ok
              /\ ~Match(c, FirstOperand(p)).ok
              /\ Match(c, SecondOperand(p)).ok

\* the premises (not P) of the store
NotPremises ==
    {p \in DOMAIN names :
        /\ HasAttr(Store, p, HavePredicate)
        /\ GetAttr(Store, p, HavePredicate)[1] = NotConcept(Store)
        /\ HasAttr(Store, p, Arg0)}

\* C10 as claimed: every concept of the store, with or without a predicate,
\* fits a premise (not P) if and only if it does not fit P.
C10_NotIffNot ==
    \A p \in NotPremises, c \in DOMAIN names :
        Match(c, p).ok <=> ~Match(c, FirstOperand(p)).ok

\* the premises (or A B) of the store
OrPremises ==
    {p \in DOMAIN names :
        /\ HasAttr(Store, p, HavePredicate)
        /\ GetAttr(Store, p, HavePredicate)[1] = OrConcept(Store)
        /\ HasAttr(Store, p, Arg0) /\ HasAttr(Store, p, Arg1)}

\* C11 as claimed: every concept of the store, with or without a predicate,
\* fits a premise (or A B) if and only if it fits A or it fits B.
C11_OrIffEither ==
    \A p \in OrPremises, c \in DOMAIN names :
        Match(c, p).ok <=>
            (Match(c, FirstOperand(p)).ok \/ Match(c, SecondOperand(p)).ok)

\* s is a prefix of t
IsPrefix(s, t) == Len(s) <= Len(t) /\ \A i \in DOMAIN s : s[i] = t[i]

\* a step of the generator (next() on it)
GenStep == nexts' # nexts

\* C12 as claimed: a run of apply_implications never removes a concept and
\* never changes an attribute list of a concept that was in the store when
\* the run began.
C12_RunLeavesExisting ==
    [][GenStep =>
          /\ IsPrefix(names, names')
          /\ \A c \in 1..gen.base : attrs'[c] = attrs[c]]_vars

\* the concept n of the store (nm, at) is an assertion of two arguments
\* whose first argument is c
EdgeFrom(nm, at, n, c) ==
    /\ \E i \in DOMAIN at[n] : nm[at[n][i].attr] = HavePredicate
    /\ Cardinality({i \in DOMAIN at[n] : IsArgRelName(nm[at[n][i].attr])}) = 2
    /\ \E i \in DOMAIN at[n] : nm[at[n][i].attr] = Arg0 /\ at[n][i].vals[1] = c

\* the first value of the attribute named a of the concept n of (nm, at)
FirstOf(nm, at, n, a) ==
    at[n][CHOOSE i \in DOMAIN at[n] : nm[at[n][i].attr] = a].vals[1]

\* the attributes alist of c after the relations pred(c, b) of the concepts
\* n..Len(nm) of the store (nm, at) are added to them, in the order of
\* their creation
RECURSIVE EdgesAdded(_, _, _, _, _)
EdgesAdded(alist, c, n, nm, at) ==
    IF n > Len(nm) THEN alist
    ELSE IF EdgeFrom(nm, at, n, c)
    THEN EdgesAdded(WithValue(alist, FirstOf(nm, at, n, HavePredicate),
                              FirstOf(nm, at, n, Arg1)),
                    c, n + 1, nm, at)
    ELSE EdgesAdded(alist, c, n + 1, nm, at)

\* C12: a step of a run of apply_implications never removes a concept, and
\* all it does to the attributes of a concept c that was there before the
\* step is to append, for every conclusion pred(c, b) of two arguments that
\* the step creates, the value b to the relation pred of c.
C12_RunAppendsEdges ==
    [][GenStep =>
          /\ IsPrefix(names, names')
          /\ IsPrefix(descr, descr')
          /\ \A c \in DOMAIN names :
                 attrs'[c] = EdgesAdded(attrs[c], c, Len(names) + 1, names', attrs')]_vars

\* a run has yielded a conclusion pred(a, b) whose first argument was in the
\* store when the run began, and b is among the values of pred of a
C12_Witness ==
    \E i \in DOMAIN yielded :
        /\ HasAttr(Store, yielded[i], Arg0) /\ HasAttr(Store, yielded[i], Arg1)
        /\ GetAttr(Store, yielded[i], Arg0)[1] <= gen.base
        /\ GetAttr(Store, yielded[i], Arg1)[1] \in
               Range(ValuesOf(GetAttr(Store, yielded[i], Arg0)[1],
                              GetAttr(Store, yielded[i], HavePredicate)[1]))
        /\ Len(ValuesOf(GetAttr(Store, yielded[i], Arg0)[1],
                        GetAttr(Store, yielded[i], HavePredicate)[1])) > 1

\* C13: in every step (an item evaluated with its calls and builtin
\* handlers, apply_implications called, a step of its generator) every
\* concept stays, every attribute of every concept stays at its place, and
\* its value list before the step is a prefix of its value list after it.
C13_AppendOnly ==
    [][/\ IsPrefix(names, names')
       /\ \A c \in DOMAIN attrs :
             /\ Len(attrs[c]) <= Len(attrs'[c])
             /\ \A i \in DOMAIN attrs[c] :
                    /\ attrs'[c][i].attr = attrs[c][i].attr
                    /\ IsPrefix(attrs[c][i].vals, attrs'[c][i].vals)]_vars

\* value lists have grown by a second call of the same assertion and by a
\* conclusion of apply_implications
C13_Witness ==
    /\ Len(yielded) > 0
    /\ InStore(Store, SocratesHuman)
    /\ Len(Values(Store, ByName(Store, SocratesHuman), Arg0)) > 1
    /\ NamesOf(Store, ValuesOf(ByName(Store, <<"Socrates">>), ByName(Store, <<"instance">>)))
           = << <<"Human">>, <<"Human">>, <<"Animal">> >>

\* the number of calls the evaluation of the expression e makes
RECURSIVE CallsIn(_)
RECURSIVE CallsInAll(_, _)
CallsInAll(es, i) == IF i > Len(es) THEN 0 ELSE CallsIn(es[i]) + CallsInAll(es, i + 1)
CallsIn(e) == IF e.k = "app" THEN 1 + CallsInAll(e.args, 1) ELSE 0

\* the call that returns the concept of the i-th item of the document: the
\* last of the calls of the items 1..i
RECURSIVE TopCall(_)
TopCall(i) == IF i = 0 THEN 0 ELSE TopCall(i - 1) + CallsIn(Items[doc[i]].e)

\* the values of the `have argument #k' attributes of alist, from the i-th
\* attribute on: all of them, or the first of each
RECURSIVE ArgumentValuesOf(_, _, _)
ArgumentValuesOf(alist, i, all) ==
    IF i > Len(alist) THEN <<>>
    ELSE IF IsArgRelName(names[alist[i].attr])
    THEN (IF all THEN alist[i].vals ELSE <<alist[i].vals[1]>>)
             \o ArgumentValuesOf(alist, i + 1, all)
    ELSE ArgumentValuesOf(alist, i + 1, all)

\* what the items i.. of the document add to `have concept', the concept of
\* an item having the attributes it has when its call returns
RECURSIVE RootValues(_, _)
RootValues(i, all) ==
    IF i > Len(doc) THEN <<>>
    ELSE IF Items[doc[i]].e.k = "empty" THEN RootValues(i + 1, all)
    ELSE ArgumentValuesOf(calls[TopCall(i)].postRet, 1, all)
             \o <<calls[TopCall(i)].ret>> \o RootValues(i + 1, all)

\* the values of `have concept' of the concept Ontology
Root == Values(Store, ByName(Store, <<"Ontology">>), <<"have concept">>)

\* the value KIFOntology.__init__ puts there
RootInit == <<ByName(Store, <<"Concept">>)>>

\* C14 as claimed: the evaluation of the document appends to `have concept'
\* of Ontology, item by item in document order, every value of each
\* `have argument #k' relation of the item's concept and then the concept;
\* items that evaluate to nothing append nothing.
C14_EveryValue ==
    Root = RootInit \o (IF EvalCount = 0 THEN <<>> ELSE RootValues(1, TRUE))

\* C14: the evaluation of the document appends to `have concept' of
\* Ontology, item by item in document order, the first value of each
\* `have argument #k' relation of the item's concept and then the concept;
\* items that evaluate to nothing append nothing.
C14_FirstValue ==
    Root = RootInit \o (IF EvalCount = 0 THEN <<>> ELSE RootValues(1, FALSE))

\* a comment line and the fact are evaluated: the arguments of the fact and
\* then the fact are under `have concept'
C14_Witness ==
    /\ log = <<"Comment", "Fact">>
    /\ NamesOf(Store, Root) =
           << <<"Concept">>, <<"Socrates">>, <<"Human">>, SocratesHuman >>

\* the whole input is consumed: the loops have taken all the parser yields
Consumed == parser.pending = <<>> /\ parser.pos = Len(parser.io)

CategoryNames ==
    {"newline", "space", "lparenthesis", "rparenthesis", "ualnum", "semicolon",
     "amp", "percent", "qmark", "atsign", "quot", "impl", "unknown"}

\* char is of one of the listed classes
Listed(char) ==
    \/ IsSpace(char) \/ IsAlpha(char) \/ IsDigit(char)
    \/ char \in {"\n", "(", ")", "_", ".", "-", ";", "&", "%", "?", "@", "\"",
                 "<", "=", ">"}

\* C17: get_cls_by_text never fails on the one-character atoms parse makes:
\* for every character put, get_category returns one of the thirteen
\* category names, `unknown' when the character is of none of the listed
\* classes, the name is a key of Atom.categories, and the atom is of the
\* class registered under it.
C17_ClassifierTotal ==
    /\ ~parser.raised
    /\ \A i \in 1..parser.pos :
          /\ GetCategory(parser.io[i]) \in CategoryNames
          /\ GetCategory(parser.io[i]) \in DOMAIN Categories
          /\ ~Listed(parser.io[i]) => GetCategory(parser.io[i]) = "unknown"
    /\ \A i \in DOMAIN parser.seen :
          parser.seen[i].cls =
              Categories[GetCategory(parser.io[parser.seen[i].start + 1])]

\* a character of none of the listed classes and a newline have been put
C17_Witness ==
    /\ parser.io = <<"!", "\n">>
    /\ Consumed
    /\ parser.seen = <<[start |-> 0, end |-> 1, cls |-> "Unknown"],
                       [start |-> 1, end |-> 2, cls |-> "NewLine"]>>

\* the concepts of the store that carry no `have predicate' relation
Plain == {c \in DOMAIN names : ~HasAttr(Store, c, HavePredicate)}

\* C18 as claimed: when neither the concept nor the premise carries a
\* predicate the match succeeds if and only if the names are equal or the
\* name of the premise begins with '?', vardict[premise.name] being then
\* the concept; and a concept whose name begins with '?' does not match a
\* premise whose name does not.
C18_NamesOrVariable ==
    \A c \in Plain, p \in Plain :
        /\ Match(c, p).ok <=> (names[c] = names[p] \/ StartsWithQ(names[p]))
        /\ (Match(c, p).ok /\ StartsWithQ(names[p])) =>
               (names[p] \in DOMAIN Match(c, p).vd /\ Match(c, p).vd[names[p]] = c)
        /\ (StartsWithQ(names[c]) /\ ~StartsWithQ(names[p])) => ~Match(c, p).ok

\* C18: when neither the concept nor the premise carries a predicate, a
\* concept whose name begins with '?' matches no premise, not even one of
\* its own name; any other concept matches if and only if the names are
\* equal or the name of the premise begins with '?', and in the latter case
\* vardict[premise.name] is the concept; nothing else is written to vardict.
C18_ConstantNamesOrVariable ==
    \A c \in Plain, p \in Plain :
        /\ Match(c, p).ok <=>
               /\ ~StartsWithQ(names[c])
               /\ names[c] = names[p] \/ StartsWithQ(names[p])
        /\ Match(c, p).vd =
               IF Match(c, p).ok /\ StartsWithQ(names[p]) THEN Bind(EmptyDict, names[p], c)
               ELSE EmptyDict

\* a constant matches itself and a variable, which it binds, and not
\* another constant; a variable does not match itself
C18_Witness ==
    /\ \E c \in Plain : ~StartsWithQ(names[c]) /\ Match(c, c).ok
    /\ \E c \in Plain, p \in Plain :
          /\ ~StartsWithQ(names[c]) /\ StartsWithQ(names[p])
          /\ Match(c, p).ok /\ Match(c, p).vd[names[p]] = c
    /\ \E c \in Plain, p \in Plain :
          ~StartsWithQ(names[c]) /\ ~StartsWithQ(names[p]) /\ ~Match(c, p).ok
    /\ \E c \in Plain : StartsWithQ(names[c]) /\ ~Match(c, c).ok

\* the concepts of the store that carry a `have predicate' relation, and the
\* first value of it
Assertions == DOMAIN names \ Plain
Pred(c) == GetAttr(Store, c, HavePredicate)[1]

\* for every `have argument #k' attribute of the premise p the concept c has
\* the attribute, and every value of p there is fitted by a value of c there
SlotsFit(c, p) ==
    \A i \in DOMAIN attrs[p] :
        IsArgRelName(names[attrs[p][i].attr]) =>
            /\ HasAttrC(Store, c, attrs[p][i].attr)
            /\ \A j \in DOMAIN attrs[p][i].vals :
                   \E k \in DOMAIN ValuesOf(c, attrs[p][i].attr) :
                       Match(ValuesOf(c, attrs[p][i].attr)[k], attrs[p][i].vals[j]).ok

Slots(c) == Cardinality({i \in DOMAIN attrs[c] : IsArgRelName(names[attrs[c][i].attr])})

BinaryPremises == AndPremises \cup OrPremises

\* the second operand of p is evaluated for the concept c
SecondEvaluated(c, p) ==
    IF p \in AndPremises THEN Match(c, FirstOperand(p)).ok
    ELSE ~Match(c, FirstOperand(p)).ok

\* the bindings of vd, overwritten by those of over
Overwritten(vd, over) == over @@ vd

\* the vardict after the operands of p, each matched on its own
OperandBindings(c, p) ==
    IF SecondEvaluated(c, p)
    THEN Overwritten(Match(c, FirstOperand(p)).vd, Match(c, SecondOperand(p)).vd)
    ELSE Match(c, FirstOperand(p)).vd

\* the first `have argument #k' attribute of the premise p
ArgPositions(p) == {i \in DOMAIN attrs[p] : IsArgRelName(names[attrs[p][i].attr])}
FirstSlot(p) == CHOOSE i \in ArgPositions(p) : \A j \in ArgPositions(p) : i <= j

\* the rules of the store with the premise p
RulesOf(p) == {ri \in DOMAIN implications : implications[ri][1] = p}

\* C20: one vardict serves a whole match.  For a premise (and A B) or
\* (or A B) and a concept with a predicate, the vardict after the match holds
\* the bindings of A, matched or not, overwritten by those of B when B is
\* evaluated, matched or not; for a premise with another predicate, the
\* bindings of the first value tried at the first argument slot stay in the
\* vardict however the match ends; and apply_conclusion is applied to this
\* vardict.
C20_SharedVardict ==
    /\ \A c \in Assertions, p \in BinaryPremises :
          /\ Match(c, p).vd = OperandBindings(c, p)
          /\ \A ri \in RulesOf(p) :
                Match(c, p).ok =>
                    Applied(Store, Match(c, p), ri) =
                        ApplyConclusion(Store, OperandBindings(c, p), implications[ri][2])
    /\ \A c \in Assertions, p \in Assertions :
          /\ Pred(p) = Pred(c)
          /\ Pred(p) \notin LogicalOperators(Store)
          /\ ArgPositions(p) # {}
          /\ HasAttrC(Store, c, attrs[p][FirstSlot(p)].attr)
          => \A n \in DOMAIN Match(ValuesOf(c, attrs[p][FirstSlot(p)].attr)[1],
                                    attrs[p][FirstSlot(p)].vals[1]).vd :
                /\ n \in DOMAIN Match(c, p).vd
                /\ ~Match(c, p).ok =>
                      Match(c, p).vd[n] =
                          Match(ValuesOf(c, attrs[p][FirstSlot(p)].attr)[1],
                                attrs[p][FirstSlot(p)].vals[1]).vd[n]

\* the binding n of the first operand is kept though the operand failed
Leaked(c, p, n) ==
    /\ ~Match(c, FirstOperand(p)).ok
    /\ Match(c, SecondOperand(p)).ok
    /\ n \in DOMAIN Match(c, FirstOperand(p)).vd
    /\ n \notin DOMAIN Match(c, SecondOperand(p)).vd

\* the binding n of the first operand is overwritten by the second
Rebound(c, p, n) ==
    /\ Match(c, p).ok
    /\ n \in DOMAIN Match(c, FirstOperand(p)).vd
    /\ n \in DOMAIN Match(c, SecondOperand(p)).vd
    /\ Match(c, FirstOperand(p)).vd[n] # Match(c, SecondOperand(p)).vd[n]
    /\ Match(c, p).vd[n] = Match(c, SecondOperand(p)).vd[n]

\* a run has yielded the conclusion of a rule for a concept and a premise
\* (or A B) where A failed and left a binding that B does not write, and B
\* has overwritten another binding of A
C20_Witness ==
    \E p \in OrPremises, c \in Assertions, i \in DOMAIN yielded :
        /\ \E n \in DOMAIN Match(c, p).vd : Leaked(c, p, n)
        /\ \E n \in DOMAIN Match(c, p).vd : Rebound(c, p, n)
        /\ \E ri \in RulesOf(p) : yielded[i] = Applied(Store, Match(c, p), ri).c

\* the vardicts that the matcher leaves for the concepts and the rules of
\* the store, matched or not
Vardicts ==
    {Fits(Store, c, ri).vd : c \in DOMAIN names, ri \in DOMAIN implications}

\* apply_conclusion(vd, t) on the store
Concluded(vd, t) == ApplyConclusion(Store, vd, t)

\* C21: for a conclusion with a `have predicate' relation apply_conclusion
\* returns is_new = TRUE if and only if the name of the instantiated
\* conclusion is not in the store before the call; when the name is there,
\* it returns the concept of that name and leaves the store as it is.  For a
\* conclusion without `have predicate' it returns the binding of its name
\* when there is one and else the conclusion, with is_new = FALSE and the
\* store as it is.
C21_NewIffNameAbsent ==
    \A vd \in Vardicts, t \in DOMAIN names :
        IF HasAttr(Store, t, HavePredicate)
        THEN /\ Concluded(vd, t).is_new <=> ~InStore(Store, Instantiated(Store, vd, t))
             /\ InStore(Store, Instantiated(Store, vd, t)) =>
                    /\ Concluded(vd, t).c = ByName(Store, Instantiated(Store, vd, t))
                    /\ Concluded(vd, t).st = Store
        ELSE /\ Concluded(vd, t).c =
                    (IF names[t] \in DOMAIN vd THEN vd[names[t]] ELSE t)
             /\ ~Concluded(vd, t).is_new
             /\ Concluded(vd, t).st = Store

\* a conclusion is instantiated to a name that is not in the store, another
\* to a name that is, with bindings that change it, and a variable is
\* replaced by its binding
C21_Witness ==
    /\ \E vd \in Vardicts, t \in DOMAIN names :
          /\ HasAttr(Store, t, HavePredicate)
          /\ Concluded(vd, t).is_new
          /\ Concluded(vd, t).st.names[Concluded(vd, t).c] # names[t]
    /\ \E vd \in Vardicts, t \in DOMAIN names :
          /\ HasAttr(Store, t, HavePredicate)
          /\ ~Concluded(vd, t).is_new
          /\ Concluded(vd, t).c # t
    /\ \E vd \in Vardicts, t \in DOMAIN names :
          /\ ~HasAttr(Store, t, HavePredicate)
          /\ Concluded(vd, t).c # t

\* C22 as claimed: concept_fits_premise returns true or false for every
\* concept and every premise of the store; it never raises a lookup failure.
C22_NeverRaises ==
    \A c \in DOMAIN names, p \in DOMAIN names : ~Match(c, p).raised

\* the concepts added to the store since the run began
AddedByRun == (gen.base + 1)..Len(names)

\* C23 as claimed: every concept added to the store during a run of
\* apply_implications has been yielded by that run.
C23_YieldsAllCreated ==
    gen.status # "idle" => \A c \in AddedByRun : c \in Range(yielded)

\* the concept c is an assertion (=> a b) or (<=> a b)
IsImplicationConcept(c) ==
    /\ HasAttr(Store, c, HavePredicate)
    /\ names[Pred(c)] \in {<<"=>">>, <<"<=>">>}
    /\ HasAttr(Store, c, Arg0) /\ HasAttr(Store, c, Arg1)

\* the pair (premise, conclusion) of the implication concept c
PairOf(c) == <<GetAttr(Store, c, Arg0)[1], GetAttr(Store, c, Arg1)[1]>>

\* C25: a step of a run of apply_implications, with the apply_conclusion
\* it makes, leaves the list of implications as it was, also when the
\* concept it creates is an assertion of `=>' or `<=>'.
C25_RunKeepsRules ==
    [][GenStep => implications' = implications]_vars

\* a run has yielded an assertion of `=>' that is not among the rules, and
\* has begun another pass after it
C25_Witness ==
    /\ \E i \in DOMAIN yielded :
          /\ IsImplicationConcept(yielded[i])
          /\ PairOf(yielded[i]) \notin Range(implications)
    /\ gen.pass > 1

\* a step of the generator that yields a concept, and the concept
YieldStep == GenStep /\ Len(yielded') = Len(yielded) + 1
YieldedNow == yielded'[Len(yielded')]

\* The number of concepts of the store when the pass that makes the yield
\* of the step began: the pass under way before the step, or a pass that
\* the step begins, on the store as it is before the step.
PassStart == IF gen'.pass = gen.pass THEN Len(gen.snap) ELSE Len(names)

\* C26: a concept that a run yields has not been yielded by the run before,
\* was not in the store when the pass that yields it began and is in the
\* store when it is yielded; the candidates of the pass are the concepts
\* that were in the store when the pass began, so the concept matched for
\* the yield is one of them and the concepts created in the pass are not.
C26_YieldedOnceFromSnapshot ==
    [][YieldStep =>
          /\ YieldedNow \notin Range(yielded)
          /\ YieldedNow > PassStart
          /\ YieldedNow \in DOMAIN names'
          /\ Range(gen'.snap) = 1..PassStart
          /\ gen'.ci \in DOMAIN gen'.snap
          /\ gen'.snap[gen'.ci] <= PassStart]_vars

\* in its second pass or a later one a run has yielded a concept for a
\* candidate that it yielded in a pass before
C26_Witness ==
    /\ gen.status = "running"
    /\ gen.pass > 1
    /\ gen.inpass > 0
    /\ Len(yielded) > gen.inpass
    /\ gen.ci \in DOMAIN gen.snap
    /\ \E i \in 1..(Len(yielded) - gen.inpass) : yielded[i] = gen.snap[gen.ci]

\* the variable concepts of the store
Variables == {v \in Plain : StartsWithQ(names[v])}

\* the last value of the i-th attribute of the premise p
SlotValue(p, i) == attrs[p][i].vals[Len(attrs[p][i].vals)]

\* the argument positions of p whose last value is the variable v
Occurrences(p, v) == {i \in ArgPositions(p) : SlotValue(p, i) = v}

\* the value of the concept c that is bound at the i-th attribute of p: the
\* first value of c there that fits
BoundAt(c, p, i) ==
    ValuesOf(c, attrs[p][i].attr)[
        CHOOSE k \in DOMAIN ValuesOf(c, attrs[p][i].attr) :
            /\ Match(ValuesOf(c, attrs[p][i].attr)[k], SlotValue(p, i)).ok
            /\ \A j \in 1..(k - 1) :
                   ~Match(ValuesOf(c, attrs[p][i].attr)[j], SlotValue(p, i)).ok]

\* the slots of p after the i-th hold concepts without arguments of their own
PlainAfter(p, i) == \A k \in ArgPositions(p) : k > i => SlotValue(p, k) \in Plain

\* C27: when a concept fits a premise whose predicate is not and, or, not,
\* a variable that stands at argument slots of the premise is bound to the
\* value of the concept at the last of these slots (the occurrence visited
\* last, no slot after it holding a nested assertion), whatever the concept
\* has at the slots before it.
C27_LastOccurrenceWins ==
    \A c \in Assertions, p \in Assertions :
        (Pred(p) \notin LogicalOperators(Store) /\ Match(c, p).ok) =>
            \A v \in Variables, i \in ArgPositions(p) :
                (/\ i \in Occurrences(p, v)
                 /\ \A j \in Occurrences(p, v) : j <= i
                 /\ PlainAfter(p, i)) =>
                    /\ names[v] \in DOMAIN Match(c, p).vd
                    /\ Match(c, p).vd[names[v]] = BoundAt(c, p, i)

\* a concept fits a premise that has one variable at two slots, with
\* different values at the two, and the variable is bound to the second
C27_Witness ==
    \E c \in Assertions, p \in Assertions, v \in Variables :
        \E i \in Occurrences(p, v), j \in Occurrences(p, v) :
            /\ Pred(p) \notin LogicalOperators(Store)
            /\ Match(c, p).ok
            /\ i < j
            /\ BoundAt(c, p, i) # BoundAt(c, p, j)
            /\ Match(c, p).vd[names[v]] = BoundAt(c, p, j)

\* the call k is one of `=>' or `<=>' on a group that does not hold two
\* arguments
Malformed(k) ==
    /\ names[calls[k].pred] \in {<<"=>">>, <<"<=>">>}
    /\ Len(calls[k].args) # 2

\* C28: a call of `=>' or `<=>' on one argument or on three raises, and
\* between its beginning and its end no pair is appended to the
\* implications, no concept is created and no attribute of an argument
\* changes; the store has no concept of the name of the assertion.
C28_MalformedRuleFails ==
    \A k \in DOMAIN calls :
        Malformed(k) =>
            /\ calls[k].raised
            /\ calls[k].ret = 0
            /\ calls[k].postImpl = calls[k].preImpl
            /\ calls[k].postNames = calls[k].preNames
            /\ calls[k].postArgs = calls[k].preArgs
            /\ ~InStore(Store, SynthName(names[calls[k].pred],
                                           NamesOf(Store, calls[k].args)))

\* after a rule was recorded, an equivalence of three arguments has failed
C28_Witness ==
    \E k \in DOMAIN calls :
        /\ Malformed(k)
        /\ names[calls[k].pred] = <<"<=>">>
        /\ Len(calls[k].args) = 3
        /\ calls[k].raised
        /\ Len(calls[k].preImpl) = 1
        /\ implications = calls[k].preImpl

\* concept_fits_premise(c, p, {}) of kifparser.py
KMatch(c, p) == KConceptFitsPremise(Store, c, p, EmptyDict)

\* C29 as claimed: on every store, for every concept and every premise the
\* concept_fits_premise of kifparser.py and the one of ontology.py return
\* the same and leave the same vardict.
C29_CopiesAgree ==
    \A c \in DOMAIN names, p \in DOMAIN names : KMatch(c, p) = Match(c, p)

\* C24: when a word has been parsed, a constituent is a quantifier keyword
\* only if its text is exactly forall or exists; the keyword itself is
\* completed as its keyword variant; and every other word, a word that
\* begins with a keyword included, is completed as a Literal, which is a
\* Predicate and a NonspacedSingleArgument.
WholeWord(obj) == obj.start = 0 /\ obj.end = Len(parser.io)
C24_OnlyExactKeywordPromoted ==
    (Consumed /\ parser.io \in Words) =>
        /\ \A i \in DOMAIN parser.seen :
               IsQuantorLiteral(parser.seen[i]) =>
                   GetText(parser.io, parser.seen[i]) \in DOMAIN literals
        /\ parser.io \in DOMAIN literals =>
               \E i \in DOMAIN parser.seen :
                   /\ WholeWord(parser.seen[i])
                   /\ parser.seen[i].cls = literals[parser.io]
        /\ parser.io \notin DOMAIN literals =>
               \E i \in DOMAIN parser.seen :
                   /\ WholeWord(parser.seen[i])
                   /\ IsLiteral(parser.seen[i])
                   /\ IsPredicate(parser.seen[i])
                   /\ IsNonspacedSingleArgument(parser.seen[i])

====
